---- MODULE Spec2Model ----
(***************************************************************************)
(* SmartSpend AI: the AI invocation service (retry, recoverJson,           *)
(* analyzeFinances, extractTransactionFromText) and the application state  *)
(* machine of App / AuthScreen / DataInputScreen (ledger, currency rebase, *)
(* analysis requests).                                                     *)
(*                                                                         *)
(* JavaScript strings are sequences of one-character strings, numbers are  *)
(* exact rationals <<numerator, denominator>> in lowest terms.             *)
(***************************************************************************)
EXTENDS Integers, Sequences, FiniteSets, TLC

(***************************************************************************)
(* Bounds of the model                                                     *)
(***************************************************************************)
\* largest retry budget a caller of retry passes
MaxAttempts == 3
\* largest ledger length
MaxTx == 2
\* largest ledger length while analysis requests are followed
MaxTxAnalysed == 1

(***************************************************************************)
(* Strings                                                                 *)
(***************************************************************************)
\* the JavaScript value undefined, where a string may stand
Undefined == <<"<undefined>">>

S_429 == <<"4", "2", "9">>
S_RESOURCE_EXHAUSTED == <<"R", "E", "S", "O", "U", "R", "C", "E", "_", "E", "X", "H", "A", "U", "S", "T", "E", "D">>
S_API_KEY_MISSING == <<"A", "P", "I", "_", "K", "E", "Y", "_", "M", "I", "S", "S", "I", "N", "G">>
S_PLACEHOLDER == <<"y", "o", "u", "r", "_", "g", "e", "m", "i", "n", "i", "_", "a", "p", "i", "_", "k", "e", "y", "_", "h", "e", "r", "e">>
S_EMPTY_RESPONSE == <<"E", "M", "P", "T", "Y", "_", "R", "E", "S", "P", "O", "N", "S", "E">>
S_MALFORMED_DATA == <<"M", "A", "L", "F", "O", "R", "M", "E", "D", "_", "D", "A", "T", "A">>
S_NO_DATA_FOUND == <<"N", "O", "_", "D", "A", "T", "A", "_", "F", "O", "U", "N", "D">>
S_NULL_RESPONSE == <<"N", "U", "L", "L", "_", "R", "E", "S", "P", "O", "N", "S", "E">>
S_EXTRACTION_FAILURE == <<"E", "X", "T", "R", "A", "C", "T", "I", "O", "N", "_", "F", "A", "I", "L", "U", "R", "E">>
\* the grave accent (backtick) character, which a TLA+ string literal cannot hold
Tick == "GRAVE"
S_FENCE_JSON == <<Tick, Tick, Tick, "j", "s", "o", "n">>
S_FENCE == <<Tick, Tick, Tick>>
S_EMPTY_OBJECT == <<"{", "}">>

WhiteSpace == {" ", "\t", "\n", "\r"}
Digits == {"0", "1", "2", "3", "4", "5", "6", "7", "8", "9"}

DigitValue(c) ==
  CASE c = "0" -> 0 [] c = "1" -> 1 [] c = "2" -> 2 [] c = "3" -> 3 [] c = "4" -> 4
    [] c = "5" -> 5 [] c = "6" -> 6 [] c = "7" -> 7 [] c = "8" -> 8 [] c = "9" -> 9

\* s.startsWith(sub, i), 1-based
MatchAt(s, sub, i) ==
  /\ i >= 1
  /\ i + Len(sub) - 1 <= Len(s)
  /\ \A k \in 1..Len(sub) : s[i + k - 1] = sub[k]

\* String.prototype.includes
Includes(s, sub) == \E i \in 1..(Len(s) + 1) : MatchAt(s, sub, i)

\* String.prototype.indexOf / lastIndexOf for one character; 0 stands for -1
IndexOf(s, c) ==
  IF \E i \in 1..Len(s) : s[i] = c
  THEN CHOOSE i \in 1..Len(s) : s[i] = c /\ \A k \in 1..(i - 1) : s[k] # c
  ELSE 0

LastIndexOf(s, c) ==
  IF \E i \in 1..Len(s) : s[i] = c
  THEN CHOOSE i \in 1..Len(s) : s[i] = c /\ \A k \in (i + 1)..Len(s) : s[k] # c
  ELSE 0

\* s.replace(/pat/g, "") for a literal pattern: leftmost non-overlapping matches
RECURSIVE RemoveAllFrom(_, _, _)
RemoveAllFrom(s, pat, i) ==
  IF i > Len(s) THEN <<>>
  ELSE IF MatchAt(s, pat, i) THEN RemoveAllFrom(s, pat, i + Len(pat))
  ELSE <<s[i]>> \o RemoveAllFrom(s, pat, i + 1)

RemoveAll(s, pat) == RemoveAllFrom(s, pat, 1)

\* String.prototype.trim
Trim(s) ==
  IF \A i \in 1..Len(s) : s[i] \in WhiteSpace THEN <<>>
  ELSE LET a == CHOOSE i \in 1..Len(s) :
                  s[i] \notin WhiteSpace /\ \A k \in 1..(i - 1) : s[k] \in WhiteSpace
           b == CHOOSE i \in 1..Len(s) :
                  s[i] \notin WhiteSpace /\ \A k \in (i + 1)..Len(s) : s[k] \in WhiteSpace
       IN SubSeq(s, a, b)

\* first index >= i that holds no white space (Len(s) + 1 when there is none)
RECURSIVE SkipWs(_, _)
SkipWs(s, i) ==
  IF i <= Len(s) /\ s[i] \in WhiteSpace THEN SkipWs(s, i + 1) ELSE i

UpperCase == <<"A", "B", "C", "D", "E", "F", "G", "H", "I", "J", "K", "L", "M", "N", "O", "P", "Q", "R", "S", "T", "U", "V", "W", "X", "Y", "Z">>
LowerCase == <<"a", "b", "c", "d", "e", "f", "g", "h", "i", "j", "k", "l", "m", "n", "o", "p", "q", "r", "s", "t", "u", "v", "w", "x", "y", "z">>

\* String.prototype.toLowerCase
toLowerCase(s) ==
  [ i \in 1..Len(s) |->
      IF \E k \in 1..26 : UpperCase[k] = s[i]
      THEN LowerCase[CHOOSE k \in 1..26 : UpperCase[k] = s[i]]
      ELSE s[i] ]

(***************************************************************************)
(* Numbers                                                                 *)
(***************************************************************************)
Abs(n) == IF n < 0 THEN -n ELSE n

RECURSIVE GCD(_, _)
GCD(a, b) == IF b = 0 THEN a ELSE GCD(b, a % b)

\* the rational n/d in lowest terms with a positive denominator (d # 0)
Rat(n, d) ==
  LET g == GCD(Abs(n), Abs(d))
      s == IF d < 0 THEN -1 ELSE 1
  IN <<(s * n) \div g, (s * d) \div g>>

RMul(x, y) == Rat(x[1] * y[1], x[2] * y[2])
RDiv(x, y) == Rat(x[1] * y[2], x[2] * y[1])
RInt(n) == <<n, 1>>

RECURSIVE Pow2(_)
Pow2(n) == IF n = 0 THEN 1 ELSE 2 * Pow2(n - 1)

RECURSIVE Pow10(_)
Pow10(n) == IF n = 0 THEN 1 ELSE 10 * Pow10(n - 1)

RECURSIVE SeqSum(_)
SeqSum(s) == IF s = <<>> THEN 0 ELSE s[1] + SeqSum(Tail(s))

\* value of a run of decimal digits
RECURSIVE DigitsValue(_)
DigitsValue(s) ==
  IF s = <<>> THEN 0 ELSE 10 * DigitsValue(SubSeq(s, 1, Len(s) - 1)) + DigitValue(s[Len(s)])

\* end (exclusive) of the run of digits starting at i
RECURSIVE DigitsEnd(_, _)
DigitsEnd(s, i) == IF i <= Len(s) /\ s[i] \in Digits THEN DigitsEnd(s, i + 1) ELSE i

(***************************************************************************)
(* JSON values and JSON.parse                                              *)
(* A value is [t |-> tag, v |-> payload]; the payload of an object is a         *)
(* function from its keys, of an array a sequence, of a number a rational.*)
(***************************************************************************)
JsUndefined == [t |-> "undefined", v |-> 0]
JsNull == [t |-> "null", v |-> 0]
JsBool(b) == [t |-> "bool", v |-> b]
JsNum(r) == [t |-> "num", v |-> r]
JsStr(s) == [t |-> "str", v |-> s]
JsArr(a) == [t |-> "arr", v |-> a]
JsObj(f) == [t |-> "obj", v |-> f]
EmptyFields == [k \in {} |-> JsUndefined]
\* obj[k] = val, replacing an earlier value of the same key
PutField(f, k, val) == [x \in (DOMAIN f) \cup {k} |-> IF x = k THEN val ELSE f[x]]

ParseFail == [ok |-> FALSE, val |-> JsUndefined, pos |-> 0]
Parsed(val, pos) == [ok |-> TRUE, val |-> val, pos |-> pos]

\* the characters of a string literal whose opening quote is before i
RECURSIVE ParseString(_, _, _)
ParseString(s, i, acc) ==
  IF i > Len(s) THEN ParseFail
  ELSE IF s[i] = "\"" THEN Parsed(JsStr(acc), i + 1)
  ELSE IF s[i] = "\\"
       THEN IF i + 1 <= Len(s) /\ s[i + 1] \in {"\"", "\\", "/"}
            THEN ParseString(s, i + 2, Append(acc, s[i + 1]))
            ELSE ParseFail
  ELSE IF s[i] \in {"\n", "\t", "\r"} THEN ParseFail
  ELSE ParseString(s, i + 1, Append(acc, s[i]))

\* -? (0 | [1-9][0-9]*) (. [0-9]+)?   (no exponent part)
ParseNumber(s, i) ==
  LET neg == s[i] = "-"
      a == IF neg THEN i + 1 ELSE i
      b == DigitsEnd(s, a)
      hasFrac == b <= Len(s) /\ s[b] = "."
      c == IF hasFrac THEN DigitsEnd(s, b + 1) ELSE b
      int == DigitsValue(SubSeq(s, a, b - 1))
      frac == IF hasFrac THEN DigitsValue(SubSeq(s, b + 1, c - 1)) ELSE 0
      scale == IF hasFrac THEN Pow10(c - b - 1) ELSE 1
      mag == Rat(int * scale + frac, scale)
  IN IF b = a \/ (b - a > 1 /\ s[a] = "0") \/ (hasFrac /\ c = b + 1) THEN ParseFail
     ELSE Parsed(JsNum(IF neg THEN <<-mag[1], mag[2]>> ELSE mag), c)

RECURSIVE ParseValue(_, _), ParseMembers(_, _, _), ParseElements(_, _, _)
ParseValue(s, i0) ==
  LET i == SkipWs(s, i0) IN
  IF i > Len(s) THEN ParseFail
  ELSE IF s[i] = "{"
       THEN LET j == SkipWs(s, i + 1) IN
            IF j <= Len(s) /\ s[j] = "}" THEN Parsed(JsObj(EmptyFields), j + 1)
            ELSE ParseMembers(s, j, EmptyFields)
  ELSE IF s[i] = "["
       THEN LET j == SkipWs(s, i + 1) IN
            IF j <= Len(s) /\ s[j] = "]" THEN Parsed(JsArr(<<>>), j + 1)
            ELSE ParseElements(s, j, <<>>)
  ELSE IF s[i] = "\"" THEN ParseString(s, i + 1, <<>>)
  ELSE IF s[i] \in Digits \cup {"-"} THEN ParseNumber(s, i)
  ELSE IF MatchAt(s, <<"t", "r", "u", "e">>, i) THEN Parsed(JsBool(TRUE), i + 4)
  ELSE IF MatchAt(s, <<"f", "a", "l", "s", "e">>, i) THEN Parsed(JsBool(FALSE), i + 5)
  ELSE IF MatchAt(s, <<"n", "u", "l", "l">>, i) THEN Parsed(JsNull, i + 4)
  ELSE ParseFail

\* "key" : value ( , "key" : value )* }
ParseMembers(s, i0, acc) ==
  LET i == SkipWs(s, i0) IN
  IF i > Len(s) \/ s[i] # "\"" THEN ParseFail
  ELSE LET k == ParseString(s, i + 1, <<>>) IN
       IF ~k.ok THEN ParseFail
       ELSE LET c == SkipWs(s, k.pos) IN
            IF c > Len(s) \/ s[c] # ":" THEN ParseFail
            ELSE LET val == ParseValue(s, c + 1) IN
                 IF ~val.ok THEN ParseFail
                 ELSE LET e == SkipWs(s, val.pos)
                          acc2 == PutField(acc, k.val.v, val.val)
                      IN IF e > Len(s) THEN ParseFail
                         ELSE IF s[e] = "}" THEN Parsed(JsObj(acc2), e + 1)
                         ELSE IF s[e] = "," THEN ParseMembers(s, e + 1, acc2)
                         ELSE ParseFail

\* value ( , value )* ]
ParseElements(s, i0, acc) ==
  LET val == ParseValue(s, i0) IN
  IF ~val.ok THEN ParseFail
  ELSE LET e == SkipWs(s, val.pos)
           acc2 == Append(acc, val.val)
       IN IF e > Len(s) THEN ParseFail
          ELSE IF s[e] = "]" THEN Parsed(JsArr(acc2), e + 1)
          ELSE IF s[e] = "," THEN ParseElements(s, e + 1, acc2)
          ELSE ParseFail

\* JSON.parse: one value, white space around it, nothing else
JSONparse(s) ==
  LET r == ParseValue(s, 1) IN
  IF r.ok /\ SkipWs(s, r.pos) > Len(s) THEN r ELSE ParseFail

(***************************************************************************)
(* services/geminiService.ts                                               *)
(***************************************************************************)
\* the outcome of a promise: fulfilled with a value, or rejected with an
\* Error that has a message (possibly undefined) and an HTTP status (0: none)
Ok(val) == [ok |-> TRUE, value |-> val, message |-> Undefined, status |-> 0]
Err(m, st) == [ok |-> FALSE, value |-> JsUndefined, message |-> m, status |-> st]
NoOutcome == [ok |-> FALSE, value |-> JsUndefined, message |-> Undefined, status |-> -1]

\* !s for s: string | undefined
Falsy(s) == s = Undefined \/ s = <<>>

\* (mutation: the credential is not checked)
KeyMissingNever(key) == FALSE

\* getAIInstance throws API_KEY_MISSING
KeyMissing(key) == Falsy(key) \/ key = S_PLACEHOLDER

\* error.message?.includes("429") || error.message?.includes("RESOURCE_EXHAUSTED")
isRateLimit(error) ==
  /\ error.message # Undefined
  /\ Includes(error.message, S_429) \/ Includes(error.message, S_RESOURCE_EXHAUSTED)

\* (mutation: the repair looks for the closing brace only)
RECURSIVE FixFromBraceOnly(_, _)
FixFromBraceOnly(s, i) ==
  IF i > Len(s) THEN <<>>
  ELSE LET j == SkipWs(s, i + 1) IN
       IF s[i] = "," /\ j <= Len(s) /\ s[j] = "}"
       THEN <<s[j]>> \o FixFromBraceOnly(s, j + 1)
       ELSE <<s[i]>> \o FixFromBraceOnly(s, i + 1)

\* jsonSnippet.replace(/,\s*([\}\]])/g, '$1')
RECURSIVE FixFrom(_, _)
FixFrom(s, i) ==
  IF i > Len(s) THEN <<>>
  ELSE LET j == SkipWs(s, i + 1) IN
       IF s[i] = "," /\ j <= Len(s) /\ s[j] \in {"}", "]"}
       THEN <<s[j]>> \o FixFrom(s, j + 1)
       ELSE <<s[i]>> \o FixFrom(s, i + 1)

FixTrailingCommas(s) == FixFrom(s, 1)

\* text.replace(/(fence)json/g, "").replace(/(fence)/g, "").trim()
cleaned(text) == Trim(RemoveAll(RemoveAll(text, S_FENCE_JSON), S_FENCE))

\* (mutation: unparseable data is swallowed and an empty object returned)
recoverJsonLenient(text) ==
  IF Falsy(text) THEN Err(S_EMPTY_RESPONSE, 0)
  ELSE LET direct == JSONparse(cleaned(text))
           start == IndexOf(cleaned(text), "{")
           end == LastIndexOf(cleaned(text), "}")
       IN IF direct.ok THEN Ok(direct.val)
          ELSE IF start # 0 /\ end # 0 /\ end > start
               THEN LET repaired == JSONparse(FixTrailingCommas(SubSeq(cleaned(text), start, end)))
                    IN IF repaired.ok THEN Ok(repaired.val) ELSE Ok(JsObj(EmptyFields))
               ELSE Ok(JsObj(EmptyFields))

recoverJson(text) ==
  IF Falsy(text) THEN Err(S_EMPTY_RESPONSE, 0)
  ELSE LET direct == JSONparse(cleaned(text))
           start == IndexOf(cleaned(text), "{")
           end == LastIndexOf(cleaned(text), "}")
       IN IF direct.ok THEN Ok(direct.val)
          ELSE IF start # 0 /\ end # 0 /\ end > start
               THEN LET jsonSnippet == SubSeq(cleaned(text), start, end)
                        fixedJson == FixTrailingCommas(jsonSnippet)
                        repaired == JSONparse(fixedJson)
                    IN IF repaired.ok THEN Ok(repaired.val) ELSE Err(S_MALFORMED_DATA, 0)
               ELSE Err(S_NO_DATA_FOUND, 0)

\* what ai.models.generateContent does: it throws, or answers with a text
\* (undefined when the response holds none)
Throws(m, st) == [throws |-> TRUE, text |-> Undefined, message |-> m, status |-> st]
Responds(t) == [throws |-> FALSE, text |-> t, message |-> Undefined, status |-> 0]

\* {"a":1}
T_OBJECT == <<"{", "\"", "a", "\"", ":", "1", "}">>
\* (fence)json\n{"a":1}\n(fence)
T_FENCED == <<Tick, Tick, Tick, "j", "s", "o", "n", "\n", "{", "\"", "a", "\"", ":", "1", "}", "\n", Tick, Tick, Tick>>
\* ok {"a":1} end
T_PROSE_AROUND == <<"o", "k", " ", "{", "\"", "a", "\"", ":", "1", "}", " ", "e", "n", "d">>
\* {"a":1,}
T_TRAILING_COMMA == <<"{", "\"", "a", "\"", ":", "1", ",", "}">>
\* no json
T_NO_JSON == <<"n", "o", " ", "j", "s", "o", "n">>
\* {a}
T_BAD_BRACES == <<"{", "a", "}">>
\* one blank
T_BLANK == <<" ">>
\* [{"a":1}]
T_ARRAY == <<"[", "{", "\"", "a", "\"", ":", "1", "}", "]">>
\* boom
M_BOOM == <<"b", "o", "o", "m">>
\* HTTP 429
M_HTTP_429 == <<"H", "T", "T", "P", " ", "4", "2", "9">>
\* k3y
S_KEY == <<"k", "3", "y">>

\* the values process.env.API_KEY may have
KeyValues == {Undefined, <<>>, S_PLACEHOLDER, S_KEY}

BackendErrors ==
  { Throws(M_HTTP_429, 429), Throws(S_RESOURCE_EXHAUSTED, 429),
    Throws(M_BOOM, 500), Throws(<<>>, 500), Throws(Undefined, 0) }

BackendTexts ==
  { Undefined, <<>>, T_OBJECT, T_FENCED, T_PROSE_AROUND, T_TRAILING_COMMA,
    T_NO_JSON, T_BAD_BRACES, T_BLANK, T_ARRAY }

BackendOutcomes == BackendErrors \cup { Responds(t) : t \in BackendTexts }

\* what the operation given to retry by another caller may do
FnOutcomes ==
  { Ok(JsStr(<<"v">>)), Ok(JsNum(RInt(2))) } \cup { Err(b.message, b.status) : b \in BackendErrors }

\* the delays such a caller passes
InitialDelays == {1000, 250}

\* retry<T>(fn, retries = 3, delay = 1000)
DefaultRetries == 3
DefaultDelay == 1000

(* One invocation of retry, analyzeFinances or extractTransactionFromText.  *)
(* pc: "fn" (awaiting fn()), "sleep" (awaiting the timeout), "done".        *)
(* backend: what generateContent did at each invocation; log: the outcome   *)
(* of each invocation of fn; waits: the delay of each timeout set; settled: *)
(* the outcome of retry; result: the outcome the caller of the exported     *)
(* function observes.                                                       *)
IdleCall ==
  [ op |-> "none", pc |-> "idle", retries |-> 0, delay |-> 0, maxAttempts |-> 0,
    initialDelay |-> 0, backend |-> <<>>, log |-> <<>>, waits |-> <<>>,
    settled |-> NoOutcome, result |-> NoOutcome ]

\* retry(fn, n, d) has called fn()
NewCall(op, n, d) ==
  [IdleCall EXCEPT !.op = op, !.pc = "fn", !.retries = n, !.delay = d,
                   !.maxAttempts = n, !.initialDelay = d]

\* the fn analyzeFinances passes to retry, given what the backend did
analyzeFn(b) ==
  IF b.throws THEN Err(b.message, b.status)
  ELSE recoverJson(IF Falsy(b.text) THEN S_EMPTY_OBJECT ELSE b.text)

\* (mutation: the response text is handed to recoverJson unchecked)
extractFnUnchecked(b) ==
  IF b.throws THEN Err(b.message, b.status) ELSE recoverJson(b.text)

\* the fn extractTransactionFromText passes to retry
extractFn(b) ==
  IF b.throws THEN Err(b.message, b.status)
  ELSE IF Falsy(b.text) THEN Err(S_NULL_RESPONSE, 0)
  ELSE recoverJson(b.text)

\* the catch block of extractTransactionFromText
extractCatch(out) ==
  IF out.ok THEN out
  ELSE IF out.message = S_API_KEY_MISSING THEN out
  ELSE Err(IF Falsy(out.message) THEN S_EXTRACTION_FAILURE ELSE out.message, 0)

\* the outcome the exported function settles with, given that of retry
Exported(op, out) ==
  IF op = "extractTransactionFromText" THEN extractCatch(out) ELSE out

Finish(c, out) ==
  [c EXCEPT !.pc = "done", !.settled = out, !.result = Exported(c.op, out)]

\* (mutation: every failure is retried while the budget lasts)
retryAnyError(c, out) ==
  LET c1 == [c EXCEPT !.log = Append(@, out)] IN
  IF out.ok THEN Finish(c1, out)
  ELSE IF c.retries > 0
       THEN [c1 EXCEPT !.pc = "sleep", !.waits = Append(@, c.delay)]
  ELSE Finish(c1, out)

\* (mutation: the last attempt of the budget is not made)
retryOneShort(c, out) ==
  LET c1 == [c EXCEPT !.log = Append(@, out)] IN
  IF out.ok THEN Finish(c1, out)
  ELSE IF c.retries > 1 /\ isRateLimit(out)
       THEN [c1 EXCEPT !.pc = "sleep", !.waits = Append(@, c.delay)]
  ELSE Finish(c1, out)

\* (mutation: the budget test admits a budget of zero)
retryAtZero(c, out) ==
  LET c1 == [c EXCEPT !.log = Append(@, out)] IN
  IF out.ok THEN Finish(c1, out)
  ELSE IF c.retries >= 0 /\ isRateLimit(out)
       THEN [c1 EXCEPT !.pc = "sleep", !.waits = Append(@, c.delay)]
  ELSE Finish(c1, out)

\* retry, from the settling of fn() with `out` up to its next suspension
retry(c, out) ==
  LET c1 == [c EXCEPT !.log = Append(@, out)] IN
  IF out.ok THEN Finish(c1, out)
  ELSE IF c.retries > 0 /\ isRateLimit(out)
       THEN [c1 EXCEPT !.pc = "sleep", !.waits = Append(@, c.delay)]
  ELSE Finish(c1, out)

\* (mutation: the delay is not doubled)
retryAgainSameDelay(c) == [c EXCEPT !.pc = "fn", !.retries = @ - 1]

\* (mutation: the timeout never calls retry again)
retryAgainNever(c) == c

\* the timeout fires: return retry(fn, retries - 1, delay * 2)
retryAgain(c) == [c EXCEPT !.pc = "fn", !.retries = @ - 1, !.delay = @ * 2]

\* analyzeFinances / extractTransactionFromText up to the first suspension
StartAI(op, key) ==
  IF KeyMissing(key)
  THEN [IdleCall EXCEPT !.op = op, !.pc = "done",
                        !.settled = NoOutcome, !.result = Err(S_API_KEY_MISSING, 0)]
  ELSE NewCall(op, DefaultRetries, DefaultDelay)

analyzeFinances(key) == StartAI("analyzeFinances", key)
extractTransactionFromText(key) == StartAI("extractTransactionFromText", key)

\* fn() settles: the operation of the caller, or the request to the backend
FnSettles(c, b) ==
  CASE c.op = "retry" -> retry(c, b)
    [] c.op = "analyzeFinances" -> retry([c EXCEPT !.backend = Append(@, b)], analyzeFn(b))
    [] c.op = "extractTransactionFromText" ->
         retry([c EXCEPT !.backend = Append(@, b)], extractFn(b))

FnInputs(c) == IF c.op = "retry" THEN FnOutcomes ELSE BackendOutcomes

(***************************************************************************)
(* State                                                                   *)
(***************************************************************************)
VARIABLES
  API_KEY,        \* process.env.API_KEY
  calls,          \* the invocations of the service in progress, by slot
  currentUser,    \* App: useState<User | null>
  currentScreen,  \* App: 'auth' | 'welcome' | 'demo' | 'input' | 'dashboard'
  analysis,       \* App: useState<AnalysisResult | null>
  rates,          \* App: useState<Record<string, number>>
  isConverting,   \* App: useState(false)
  localStorage,   \* window.localStorage, key user_<username>
  login,          \* AuthScreen.handleSubmit suspended at its delay
  input,          \* the state of the mounted DataInputScreen
  requests,       \* the suspended runAnalysis of each slot
  last            \* the last handler run and the state it started from

appVars == <<currentUser, currentScreen, analysis, rates, isConverting,
             localStorage, login, input, requests>>
vars == <<API_KEY, calls, currentUser, currentScreen, analysis, rates, isConverting,
          localStorage, login, input, requests, last>>

\* the slots of the invocations
CallIds == {1, 2}

\* the record of a handler run: its name, its argument, the error it threw,
\* the screen it started on and whether an analysis was stored then
Handler(op, arg, threw) ==
  [ op |-> op, arg |-> arg, threw |-> threw,
    screen |-> currentScreen, analysed |-> analysis.value # JsNull ]

\* the record of a handler run that ended with addToast: toast names the advice
Notify(op, arg, toast) == Handler(op, arg, "none") @@ [toast |-> toast]

S_QUOTA == <<"q", "u", "o", "t", "a">>
S_EXHAUSTED == <<"e", "x", "h", "a", "u", "s", "t", "e", "d">>

\* error.message?.toLowerCase() || ""
msgOf(message) == IF Falsy(message) THEN <<>> ELSE toLowerCase(message)

\* the first test of both catch blocks of DataInputScreen
quotaReached(msg) ==
  Includes(msg, S_429) \/ Includes(msg, S_QUOTA) \/ Includes(msg, S_EXHAUSTED)

\* the toast of the catch block of runAnalysis
analysisAdvice(message) ==
  IF quotaReached(msgOf(message)) THEN "try_again" ELSE "generic"

\* the toast of the catch block of handleSmartImport
importAdvice(message) ==
  IF quotaReached(msgOf(message)) THEN "try_again"
  ELSE IF Includes(msgOf(message), toLowerCase(S_API_KEY_MISSING)) THEN "configuration"
  ELSE "generic"

(***************************************************************************)
(* The service under any caller                                            *)
(***************************************************************************)
\* a caller invokes retry(fn, n, d)
CallRetry(id) ==
  /\ calls[id].pc = "idle"
  /\ \E n \in 0..MaxAttempts, d \in InitialDelays :
       calls' = [calls EXCEPT ![id] = NewCall("retry", n, d)]
  /\ last' = Handler("retry", "", "none")
  /\ UNCHANGED <<API_KEY, appVars>>

CallAnalyzeFinances(id) ==
  /\ calls[id].pc = "idle"
  /\ calls' = [calls EXCEPT ![id] = analyzeFinances(API_KEY)]
  /\ last' = Handler("analyzeFinances", "", "none")
  /\ UNCHANGED <<API_KEY, appVars>>

CallExtractTransactionFromText(id) ==
  /\ calls[id].pc = "idle"
  /\ calls' = [calls EXCEPT ![id] = extractTransactionFromText(API_KEY)]
  /\ last' = Handler("extractTransactionFromText", "", "none")
  /\ UNCHANGED <<API_KEY, appVars>>

\* fn() settles
FnReturns(id) ==
  /\ calls[id].pc = "fn"
  /\ \E b \in FnInputs(calls[id]) : calls' = [calls EXCEPT ![id] = FnSettles(calls[id], b)]
  /\ last' = Handler("fn", "", "none")
  /\ UNCHANGED <<API_KEY, appVars>>

\* (mutation: the budget is a counter all invocations share)
TimeoutFiresShared(id) ==
  /\ calls[id].pc = "sleep"
  /\ calls' = [other \in CallIds |->
                 IF other = id THEN retryAgain(calls[id])
                 ELSE [calls[other] EXCEPT !.retries = @ - 1]]
  /\ last' = Handler("setTimeout", "", "none")
  /\ UNCHANGED <<API_KEY, appVars>>

\* the timeout of the backoff fires
TimeoutFires(id) ==
  /\ calls[id].pc = "sleep"
  /\ calls' = [calls EXCEPT ![id] = retryAgain(calls[id])]
  /\ last' = Handler("setTimeout", "", "none")
  /\ UNCHANGED <<API_KEY, appVars>>

\* the caller has seen the outcome
CallerResumes(id) ==
  /\ calls[id].pc = "done"
  /\ calls' = [calls EXCEPT ![id] = IdleCall]
  /\ last' = Handler("await", "", "none")
  /\ UNCHANGED <<API_KEY, appVars>>

(***************************************************************************)
(* types.ts                                                                *)
(***************************************************************************)
FinanceMode == {"Individual", "Business", "Family", "Trip/Travel"}

\* the codes of CURRENCIES, in order (a Currency is modelled by its code)
CURRENCIES == <<"USD", "EUR", "GBP", "INR", "JPY", "AUD", "CAD", "AED">>
Currency(code) == [code |-> code]

MODE_CONFIG ==
  ( "Individual" :>
    << <<"I", "n", "c", "o", "m", "e", "/", "S", "a", "l", "a", "r", "y">>,
       <<"F", "o", "o", "d">>,
       <<"T", "r", "a", "n", "s", "p", "o", "r", "t">>,
       <<"R", "e", "n", "t">>,
       <<"S", "u", "b", "s", "c", "r", "i", "p", "t", "i", "o", "n">>,
       <<"E", "n", "t", "e", "r", "t", "a", "i", "n", "m", "e", "n", "t">>,
       <<"I", "n", "v", "e", "s", "t", "m", "e", "n", "t", "s">> >>
  @@ "Business" :>
    << <<"R", "e", "v", "e", "n", "u", "e", "/", "S", "a", "l", "e", "s">>,
       <<"O", "p", "e", "r", "a", "t", "i", "o", "n", "a", "l", " ", "E", "x", "p", "e", "n", "s", "e", "s">>,
       <<"S", "a", "l", "a", "r", "i", "e", "s">>,
       <<"U", "t", "i", "l", "i", "t", "i", "e", "s">>,
       <<"V", "e", "n", "d", "o", "r", " ", "P", "a", "y", "m", "e", "n", "t", "s">>,
       <<"T", "a", "x", " ", "P", "a", "y", "m", "e", "n", "t", "s">>,
       <<"I", "n", "v", "e", "n", "t", "o", "r", "y">> >>
  @@ "Trip/Travel" :>
    << <<"R", "e", "f", "u", "n", "d", "s", "/", "C", "r", "e", "d", "i", "t", "s">>,
       <<"M", "o", "d", "e", " ", "o", "f", " ", "T", "r", "a", "n", "s", "p", "o", "r", "t", "a", "t", "i", "o", "n">>,
       <<"A", "c", "c", "o", "m", "m", "o", "d", "a", "t", "i", "o", "n", "s">>,
       <<"F", "o", "o", "d">>,
       <<"L", "o", "c", "a", "l", " ", "T", "r", "a", "n", "s", "p", "o", "r", "t">>,
       <<"A", "c", "t", "i", "v", "i", "t", "i", "e", "s">>,
       <<"S", "h", "o", "p", "p", "i", "n", "g">> >>
  @@ "Family" :>
    << <<"I", "n", "c", "o", "m", "e", "/", "A", "l", "l", "o", "w", "a", "n", "c", "e", "s">>,
       <<"G", "r", "o", "c", "e", "r", "i", "e", "s">>,
       <<"S", "c", "h", "o", "o", "l", "/", "C", "o", "l", "l", "e", "g", "e", " ", "F", "e", "e", "s">>,
       <<"H", "e", "a", "l", "t", "h", "c", "a", "r", "e">>,
       <<"I", "n", "s", "u", "r", "a", "n", "c", "e">>,
       <<"U", "t", "i", "l", "i", "t", "i", "e", "s">>,
       <<"M", "a", "i", "n", "t", "e", "n", "a", "n", "c", "e">> >> )

(***************************************************************************)
(* Values of the application state                                         *)
(***************************************************************************)
\* currentUser = null
NoUser == [username |-> "", mode |-> "", transactions |-> <<>>, currency |-> Currency("")]
\* analysis = null; `from` names the ledger an analysis was computed from
NoSnapshot == [username |-> "", currency |-> "", transactions |-> <<>>]
NoAnalysis == [value |-> JsNull, from |-> NoSnapshot]
\* useState<Record<string, number>>({})
NoRates == [c \in {} |-> RInt(0)]
\* no DataInputScreen is mounted
NotMounted ==
  [ mounted |-> FALSE, activeSubMode |-> <<>>, amount |-> <<>>, desc |-> <<>>,
    date |-> <<>>, isAnalyzing |-> FALSE, smsText |-> <<>>, isExtracting |-> FALSE,
    isWebFetching |-> FALSE, showSmartImport |-> FALSE, cloudAlerts |-> <<>>,
    hideTimers |-> 0 ]
NoLogin == [pending |-> FALSE, username |-> "", isRegistering |-> FALSE]
NoRequest == [pending |-> FALSE, mounted |-> FALSE, from |-> NoSnapshot]

\* the user names typed into the AuthScreen
Usernames == {"user_1"}

InitApp ==
  /\ currentUser = NoUser
  /\ currentScreen = "auth"
  /\ analysis = NoAnalysis
  /\ rates = NoRates
  /\ isConverting = FALSE
  /\ localStorage = [u \in Usernames |-> NoUser]
  /\ login = NoLogin
  /\ input = NotMounted
  /\ requests = [id \in CallIds |-> NoRequest]

InitService ==
  /\ API_KEY \in KeyValues
  /\ calls = [id \in CallIds |-> IdleCall]

(***************************************************************************)
(* The service alone: one invocation at a time, by any caller              *)
(***************************************************************************)
NextService ==
  \/ CallRetry(1)
  \/ CallAnalyzeFinances(1)
  \/ CallExtractTransactionFromText(1)
  \/ FnReturns(1)
  \/ TimeoutFires(1)
  \/ CallerResumes(1)

InitOfService ==
  /\ InitService
  /\ InitApp
  /\ last = Handler("init", "", "none")

SpecService == InitOfService /\ [][NextService]_vars

(***************************************************************************)
(* recoverJson alone, on the response texts of a bounded set               *)
(***************************************************************************)
\* {"k":"v"}
T_STRING == <<"{", "\"", "k", "\"", ":", "\"", "v", "\"", "}">>
\* {"a":{"b":[1,2]}}
T_NESTED == <<"{", "\"", "a", "\"", ":", "{", "\"", "b", "\"", ":", "[", "1", ",", "2", "]", "}", "}">>
\* {"s":"(fence)"}
T_FENCE_INSIDE == <<"{", "\"", "s", "\"", ":", "\"", Tick, Tick, Tick, "\"", "}">>
\* {"c":",}"}
T_COMMA_INSIDE == <<"{", "\"", "c", "\"", ":", "\"", ",", "}", "\"", "}">>
\* {"a":[1,],}
T_COMMAS_NESTED == <<"{", "\"", "a", "\"", ":", "[", "1", ",", "]", ",", "}">>
\* {"a":1 , }
T_COMMA_SPACED == <<"{", "\"", "a", "\"", ":", "1", " ", ",", " ", "}">>
\* {"a":1,,}
T_COMMA_TWICE == <<"{", "\"", "a", "\"", ":", "1", ",", ",", "}">>
\* }{
T_BRACES_REVERSED == <<"}", "{">>
\* a line feed and a tab
T_BLANK_LINES == <<"\n", "\t">>

\* serialisations of JSON objects
ObjectTexts == {S_EMPTY_OBJECT, T_OBJECT, T_STRING, T_NESTED, T_FENCE_INSIDE, T_COMMA_INSIDE}

\* (fence)json\n ... \n(fence)
Fenced(t) == S_FENCE_JSON \o <<"\n">> \o t \o <<"\n">> \o S_FENCE

\* the prose a model appends to its answer: none, " done", " see {x}"
Proses == { <<>>, <<" ", "d", "o", "n", "e">>, <<" ", "s", "e", "e", " ", "{", "x", "}">> }

\* a serialisation, wrapped in fence markers or not, followed by prose
Wrap(core, fence, prose) == (IF fence THEN Fenced(core) ELSE core) \o prose

\* the texts recoverJson is given
RecoverTexts ==
  { Wrap(core, fence, prose) : core \in ObjectTexts, fence \in BOOLEAN, prose \in Proses }
    \cup BackendTexts
    \cup { T_COMMAS_NESTED, T_COMMA_SPACED, T_COMMA_TWICE, T_BRACES_REVERSED, T_BLANK_LINES,
           S_FENCE }

\* recoverJson(text) has returned or thrown; the call keeps the text as the
\* response it was made for
RecoverCall(text) ==
  [IdleCall EXCEPT !.op = "recoverJson", !.pc = "done", !.backend = <<Responds(text)>>,
                   !.settled = recoverJson(text), !.result = recoverJson(text)]

CallRecoverJson(id) ==
  /\ calls[id].pc = "idle"
  /\ \E text \in RecoverTexts : calls' = [calls EXCEPT ![id] = RecoverCall(text)]
  /\ last' = Handler("recoverJson", "", "none")
  /\ UNCHANGED <<API_KEY, appVars>>

NextRecover ==
  \/ \E id \in CallIds : CallRecoverJson(id)
  \/ \E id \in CallIds : CallerResumes(id)

InitRecover ==
  /\ API_KEY = S_KEY
  /\ calls = [id \in CallIds |-> IdleCall]
  /\ InitApp
  /\ last = Handler("init", "", "none")

SpecRecover == InitRecover /\ [][NextRecover]_vars

(***************************************************************************)
(* App.tsx, components/AuthScreen.tsx, DataInputScreen                     *)
(***************************************************************************)
S_EXPENSE == <<"E", "x", "p", "e", "n", "s", "e", ":", " ">>
S_TODAY == <<"2", "0", "2", "4", "-", "0", "5", "-", "0", "1">>
S_2_5 == <<"2", ".", "5">>

\* what the user types into the amount field (type="number")
AmountInputs == {S_2_5}
\* the ids Math.random().toString(36).substr(2, 9) yields
Ids == {"id_a", "id_b"}
\* the currencies the user picks in the select
CurrencyChoices == {"USD", "EUR"}
\* the profiles the user picks on the WelcomeScreen
ModeChoices == {"Family"}
\* the category tabs the user clicks
TabChoices == {1, 2}

\* the answers of the rate provider (data.rates), relative to USD
R_USD_EUR_GBP == ("USD" :> RInt(1) @@ "EUR" :> Rat(9, 10) @@ "GBP" :> Rat(4, 5))
R_USD_GBP == ("USD" :> RInt(1) @@ "GBP" :> Rat(4, 5))
RateTables == {R_USD_EUR_GBP, R_USD_GBP}

\* NaN
NaN == <<0, 0>>

\* [+-]? ( digits ( . digits* )? | . digits+ ) at i: the decimal literals of
\* the StringNumericLiteral grammar (no exponent, no hex, no Infinity)
StrDecimal(s, i) ==
  LET signed == i <= Len(s) /\ s[i] \in {"+", "-"}
      a == IF signed THEN i + 1 ELSE i
      b == DigitsEnd(s, a)
      hasDot == b <= Len(s) /\ s[b] = "."
      c == IF hasDot THEN DigitsEnd(s, b + 1) ELSE b
      int == DigitsValue(SubSeq(s, a, b - 1))
      frac == IF hasDot THEN DigitsValue(SubSeq(s, b + 1, c - 1)) ELSE 0
      scale == IF hasDot THEN Pow10(c - b - 1) ELSE 1
      mag == Rat(int * scale + frac, scale)
  IN IF b = a /\ (~hasDot \/ c = b + 1) THEN [ok |-> FALSE, val |-> NaN, pos |-> i]
     ELSE [ ok |-> TRUE, pos |-> c,
            val |-> IF signed /\ s[i] = "-" THEN <<-mag[1], mag[2]>> ELSE mag ]

\* Number(s)
ToNumber(s) ==
  LET t == Trim(s)
      r == StrDecimal(t, 1)
  IN IF t = <<>> THEN RInt(0)
     ELSE IF r.ok /\ r.pos = Len(t) + 1 THEN r.val ELSE NaN

\* parseFloat(s)
parseFloat(s) == StrDecimal(s, SkipWs(s, 1)).val

\* the truth value of a JSON value
Truthy(val) ==
  CASE val.t \in {"undefined", "null"} -> FALSE
    [] val.t = "bool" -> val.v
    [] val.t = "num" -> val.v[1] # 0
    [] val.t = "str" -> val.v # <<>>
    [] OTHER -> TRUE

\* !rates[code]
NoRate(rts, code) == code \notin DOMAIN rts \/ rts[code][1] = 0

\* the ledger an analysis request is computed from
Snapshot(user) ==
  [username |-> user.username, currency |-> user.currency.code,
   transactions |-> user.transactions]

\* JSON.parse(JSON.stringify(user)): every string, finite number and array
\* of a User comes back as it was written
Stored(user) == user

\* the DataInputScreen is rendered
InputShown(user, screen) == screen = "input" /\ user # NoUser

\* the state of a DataInputScreen at its first render
FreshInput(user) ==
  [ mounted |-> TRUE, activeSubMode |-> MODE_CONFIG[user.mode][1], amount |-> <<>>,
    desc |-> <<>>, date |-> S_TODAY, isAnalyzing |-> FALSE, smsText |-> <<>>,
    isExtracting |-> FALSE, isWebFetching |-> FALSE, showSmartImport |-> FALSE,
    cloudAlerts |-> <<>>, hideTimers |-> 0 ]

\* the DataInputScreen after App has rendered with `user` and `screen`, its
\* state being `inp` when it stays mounted
Render(inp, user, screen) ==
  IF InputShown(user, screen) THEN (IF inp.mounted THEN inp ELSE FreshInput(user))
  ELSE NotMounted

\* a suspended runAnalysis loses its component when that is unmounted
Orphaned(reqs, inp) ==
  [id \in DOMAIN reqs |-> [reqs[id] EXCEPT !.mounted = @ /\ inp.mounted]]

\* App state after a handler: screen, mounted component, suspended requests
Commit(user, screen, inp) ==
  /\ currentUser' = user
  /\ currentScreen' = screen
  /\ input' = Render(inp, user, screen)
  /\ requests' = Orphaned(requests, Render(inp, user, screen))

\* localStorage.setItem(`user_${updated.username}`, JSON.stringify(updated))
SetItem(updated) == [localStorage EXCEPT ![updated.username] = Stored(updated)]

\* fetchRates: the provider answers with data.rates
FetchRates(table) ==
  /\ rates' = table
  /\ last' = Handler("fetchRates", "", "none")
  /\ UNCHANGED <<API_KEY, calls, currentUser, currentScreen, analysis, isConverting,
                 localStorage, login, input, requests>>

\* AuthScreen.handleSubmit up to its delay (the username is valid)
HandleSubmit(username, isRegistering) ==
  /\ currentScreen = "auth"
  /\ ~login.pending
  /\ login' = [pending |-> TRUE, username |-> username, isRegistering |-> isRegistering]
  /\ last' = Handler("handleSubmit", username, "none")
  /\ UNCHANGED <<API_KEY, calls, currentUser, currentScreen, analysis, rates, isConverting,
                 localStorage, input, requests>>

\* AuthScreen.handleSubmit after its delay; App.handleAuthSuccess
HandleSubmitResumes ==
  /\ login.pending
  /\ LET saved == localStorage[login.username]
         newUser == [username |-> login.username, mode |-> "Individual",
                     transactions |-> <<>>, currency |-> Currency(CURRENCIES[1])]
     IN IF login.isRegistering
        THEN IF saved # NoUser
             THEN UNCHANGED <<currentUser, currentScreen, input, requests, localStorage>>
             ELSE /\ localStorage' = SetItem(newUser)
                  /\ Commit(newUser, "welcome", input)
        ELSE IF saved = NoUser
             THEN UNCHANGED <<currentUser, currentScreen, input, requests, localStorage>>
             ELSE /\ Commit(saved, "welcome", input)
                  /\ UNCHANGED localStorage
  /\ login' = NoLogin
  /\ last' = Handler("handleAuthSuccess", login.username, "none")
  /\ UNCHANGED <<API_KEY, calls, analysis, rates, isConverting>>

\* the logo of the navigation bar: setCurrentScreen('welcome')
GoWelcome ==
  /\ currentUser # NoUser
  /\ Commit(currentUser, "welcome", input)
  /\ last' = Handler("setCurrentScreen", "welcome", "none")
  /\ UNCHANGED <<API_KEY, calls, analysis, rates, isConverting, localStorage, login>>

HandleUpdateMode(mode) ==
  /\ currentScreen = "welcome" /\ currentUser # NoUser
  /\ LET updated == [currentUser EXCEPT !.mode = mode] IN
     /\ Commit(updated, "demo", input)
     /\ localStorage' = SetItem(updated)
  /\ last' = Handler("handleUpdateMode", mode, "none")
  /\ UNCHANGED <<API_KEY, calls, analysis, rates, isConverting, login>>

\* DemoDataScreen.onNext
DemoNext ==
  /\ currentScreen = "demo" /\ currentUser # NoUser
  /\ Commit(currentUser, "input", input)
  /\ last' = Handler("setCurrentScreen", "input", "none")
  /\ UNCHANGED <<API_KEY, calls, analysis, rates, isConverting, localStorage, login>>

\* DashboardScreen.onBack
DashboardBack ==
  /\ currentScreen = "dashboard" /\ currentUser # NoUser /\ Truthy(analysis.value)
  /\ Commit(currentUser, "input", input)
  /\ last' = Handler("setCurrentScreen", "input", "none")
  /\ UNCHANGED <<API_KEY, calls, analysis, rates, isConverting, localStorage, login>>

\* the fields of the entry form
SetAmount(text) ==
  /\ input.mounted
  /\ input' = [input EXCEPT !.amount = text]
  /\ last' = Handler("setAmount", "", "none")
  /\ UNCHANGED <<API_KEY, calls, currentUser, currentScreen, analysis, rates, isConverting,
                 localStorage, login, requests>>

SetActiveSubMode(n) ==
  /\ input.mounted
  /\ input' = [input EXCEPT !.activeSubMode = MODE_CONFIG[currentUser.mode][n]]
  /\ last' = Handler("setActiveSubMode", "", "none")
  /\ UNCHANGED <<API_KEY, calls, currentUser, currentScreen, analysis, rates, isConverting,
                 localStorage, login, requests>>

\* handleUpdateTransactions: the user with the new ledger (currentUser holds)
handleUpdateTransactions(user, transactions) == [user EXCEPT !.transactions = transactions]

\* the transaction handleAddTransaction builds; unit records the currency
\* the entry form showed for the amount
NewTx(inp, user, id) ==
  [ id |-> id, category |-> inp.activeSubMode, amount |-> parseFloat(inp.amount),
    description |-> IF Falsy(inp.desc) THEN S_EXPENSE \o inp.activeSubMode ELSE inp.desc,
    date |-> inp.date, unit |-> user.currency.code ]

HandleAddTransaction(max) ==
  /\ input.mounted
  /\ IF Falsy(input.amount) \/ ToNumber(input.amount) = NaN
     THEN UNCHANGED <<currentUser, currentScreen, input, requests, localStorage>>
     ELSE /\ Len(currentUser.transactions) < max
          /\ \E id \in Ids :
               LET updated == handleUpdateTransactions(currentUser,
                                Append(currentUser.transactions, NewTx(input, currentUser, id)))
               IN /\ Commit(updated, currentScreen, [input EXCEPT !.amount = <<>>, !.desc = <<>>])
                  /\ localStorage' = SetItem(updated)
  /\ last' = Handler("handleAddTransaction", "", "none")
  /\ UNCHANGED <<API_KEY, calls, analysis, rates, isConverting, login>>

\* transactions.filter(t => t.id !== id)
WithoutId(transactions, id) == SelectSeq(transactions, LAMBDA t : t.id # id)

\* the remove button of a transaction listed under the active category
HandleRemoveTransaction(id) ==
  /\ input.mounted
  /\ \E i \in 1..Len(currentUser.transactions) :
       /\ currentUser.transactions[i].id = id
       /\ currentUser.transactions[i].category = input.activeSubMode
  /\ LET updated == handleUpdateTransactions(currentUser,
                                             WithoutId(currentUser.transactions, id))
     IN /\ Commit(updated, currentScreen, input)
        /\ localStorage' = SetItem(updated)
  /\ last' = Handler("handleRemoveTransaction", id, "none")
  /\ UNCHANGED <<API_KEY, calls, analysis, rates, isConverting, login>>

\* (mutation: the rate of the old currency is taken to be 1)
rebasedFromBase(user, rts, code) ==
  LET conversionFactor == rts[code] IN
  [user EXCEPT
     !.currency = Currency(code),
     !.transactions = [i \in 1..Len(@) |->
                         [@[i] EXCEPT !.amount = RMul(@, conversionFactor), !.unit = code]]]

\* (mutation: the factor is inverted)
rebasedInverse(user, rts, code) ==
  LET conversionFactor == RDiv(rts[user.currency.code], rts[code]) IN
  [user EXCEPT
     !.currency = Currency(code),
     !.transactions = [i \in 1..Len(@) |->
                         [@[i] EXCEPT !.amount = RMul(@, conversionFactor), !.unit = code]]]

\* (mutation: the ledger is converted from its second transaction on)
rebasedButFirst(user, rts, code) ==
  LET conversionFactor == RDiv(rts[code], rts[user.currency.code]) IN
  [user EXCEPT
     !.currency = Currency(code),
     !.transactions = [i \in 1..Len(@) |->
                         IF i = 1 THEN @[i]
                         ELSE [@[i] EXCEPT !.amount = RMul(@, conversionFactor), !.unit = code]]]

\* (mutation: the converted ledger comes out in reverse order)
rebasedReversed(user, rts, code) ==
  LET conversionFactor == RDiv(rts[code], rts[user.currency.code]) IN
  [user EXCEPT
     !.currency = Currency(code),
     !.transactions = [i \in 1..Len(@) |->
                         [@[Len(@) + 1 - i] EXCEPT !.amount = RMul(@, conversionFactor),
                                                    !.unit = code]]]

\* handleUpdateCurrency: `updated`, the user in the new currency
rebased(user, rts, code) ==
  LET oldRate == rts[user.currency.code]
      newRate == rts[code]
      conversionFactor == RDiv(newRate, oldRate)
  IN [user EXCEPT
        !.currency = Currency(code),
        !.transactions = [i \in 1..Len(@) |->
                            [@[i] EXCEPT !.amount = RMul(@, conversionFactor), !.unit = code]]]

\* (mutation: the dashboard stays the current screen)
screenKept(screen) == screen

\* if (currentScreen === 'dashboard') setCurrentScreen('input')
screenAfterRebase(screen) == IF screen = "dashboard" THEN "input" ELSE screen

\* the select of the navigation bar changes to `code`
HandleUpdateCurrency(code) ==
  /\ currentUser # NoUser
  /\ ~isConverting
  /\ code # currentUser.currency.code
  /\ IF NoRate(rates, code) \/ NoRate(rates, currentUser.currency.code)
     THEN UNCHANGED <<currentUser, currentScreen, input, requests, localStorage,
                      analysis, isConverting>>
     ELSE LET updated == rebased(currentUser, rates, code) IN
          /\ Commit(updated, screenAfterRebase(currentScreen), input)
          /\ localStorage' = SetItem(updated)
          /\ analysis' = NoAnalysis
          /\ isConverting' = TRUE
  /\ last' = Handler("handleUpdateCurrency", code, "none")
  /\ UNCHANGED <<API_KEY, calls, rates, login>>

\* setTimeout(() => setIsConverting(false), 500)
ConvertingEnds ==
  /\ isConverting
  /\ isConverting' = FALSE
  /\ last' = Handler("setIsConverting", "", "none")
  /\ UNCHANGED <<API_KEY, calls, currentUser, currentScreen, analysis, rates,
                 localStorage, login, input, requests>>

logout ==
  /\ currentUser # NoUser
  /\ Commit(NoUser, "auth", input)
  /\ analysis' = NoAnalysis
  /\ last' = Handler("logout", "", "none")
  /\ UNCHANGED <<API_KEY, calls, rates, isConverting, localStorage, login>>

\* the answers of the backend to the requests of the application
AppBackendOutcomes == {Throws(M_HTTP_429, 429), Throws(M_BOOM, 500), Responds(T_OBJECT)}

\* the keys the application is built with
AppKeyValues == {Undefined, S_KEY}

\* (mutation: the ledger is not tested before the request)
RunAnalysisUnchecked(id) ==
  /\ input.mounted /\ ~input.isAnalyzing
  /\ calls[id].pc = "idle" /\ ~requests[id].pending
  /\ \A other \in CallIds : other < id => requests[other].pending
  /\ calls' = [calls EXCEPT ![id] = analyzeFinances(API_KEY)]
  /\ input' = [input EXCEPT !.isAnalyzing = TRUE]
  /\ requests' = [requests EXCEPT ![id] =
                    [pending |-> TRUE, mounted |-> TRUE, from |-> Snapshot(currentUser)]]
  /\ last' = Notify("runAnalysis", "", "none")
  /\ UNCHANGED <<API_KEY, currentUser, currentScreen, analysis, rates, isConverting,
                 localStorage, login>>

\* DataInputScreen.runAnalysis up to its await
RunAnalysis(id) ==
  /\ input.mounted /\ ~input.isAnalyzing
  /\ calls[id].pc = "idle" /\ ~requests[id].pending
  /\ \A other \in CallIds : other < id => requests[other].pending
  /\ IF currentUser.transactions = <<>>
     THEN UNCHANGED <<calls, input, requests>>
     ELSE /\ calls' = [calls EXCEPT ![id] = analyzeFinances(API_KEY)]
          /\ input' = [input EXCEPT !.isAnalyzing = TRUE]
          /\ requests' = [requests EXCEPT ![id] =
                            [pending |-> TRUE, mounted |-> TRUE, from |-> Snapshot(currentUser)]]
  /\ last' = Notify("runAnalysis", "",
                     IF currentUser.transactions = <<>> THEN "ledger_empty" ELSE "none")
  /\ UNCHANGED <<API_KEY, currentUser, currentScreen, analysis, rates, isConverting,
                 localStorage, login>>

\* the backend answers the request of a suspended runAnalysis
BackendAnswers(id) ==
  /\ calls[id].pc = "fn" /\ requests[id].pending
  /\ calls[id].op = "analyzeFinances"
  /\ \E b \in AppBackendOutcomes : calls' = [calls EXCEPT ![id] = FnSettles(calls[id], b)]
  /\ last' = Handler("fn", "", "none")
  /\ UNCHANGED <<API_KEY, appVars>>

\* (mutation: the finally block is missing)
AnalyzingEndsNever(inp, req) == inp

\* finally { setIsAnalyzing(false) } on the component that started the request
AnalyzingEnds(inp, req) == IF req.mounted THEN [inp EXCEPT !.isAnalyzing = FALSE] ELSE inp

\* runAnalysis after its await: onAnalyze(result), that is
\* App.handleStartAnalysis, or the catch block; then the finally block
RunAnalysisResumes(id) ==
  /\ calls[id].pc = "done" /\ requests[id].pending
  /\ calls[id].op = "analyzeFinances"
  /\ LET out == calls[id].result
         reqs == [requests EXCEPT ![id] = NoRequest]
         inp == AnalyzingEnds(input, requests[id])
     IN IF out.ok
        THEN /\ analysis' = [value |-> out.value, from |-> requests[id].from]
             /\ currentScreen' = "dashboard"
             /\ input' = Render(inp, currentUser, "dashboard")
             /\ requests' = Orphaned(reqs, Render(inp, currentUser, "dashboard"))
        ELSE /\ input' = inp
             /\ requests' = reqs
             /\ UNCHANGED <<analysis, currentScreen>>
  /\ calls' = [calls EXCEPT ![id] = IdleCall]
  /\ last' = Notify("handleStartAnalysis", "",
                     IF calls[id].result.ok THEN "none"
                     ELSE analysisAdvice(calls[id].result.message))
  /\ UNCHANGED <<API_KEY, currentUser, rates, isConverting, localStorage, login>>

(***************************************************************************)
(* The application                                                         *)
(***************************************************************************)
\* the ledger without the AI requests
NextLedger ==
  \/ \E table \in RateTables : FetchRates(table)
  \/ \E u \in Usernames, isRegistering \in BOOLEAN : HandleSubmit(u, isRegistering)
  \/ HandleSubmitResumes
  \/ GoWelcome
  \/ \E mode \in ModeChoices : HandleUpdateMode(mode)
  \/ DemoNext
  \/ \E text \in AmountInputs : SetAmount(text)
  \/ \E n \in TabChoices : SetActiveSubMode(n)
  \/ HandleAddTransaction(MaxTx)
  \/ \E id \in Ids : HandleRemoveTransaction(id)
  \/ \E code \in CurrencyChoices : HandleUpdateCurrency(code)
  \/ ConvertingEnds
  \/ logout

InitLedger ==
  /\ API_KEY = S_KEY
  /\ calls = [id \in CallIds |-> IdleCall]
  /\ InitApp
  /\ last = Handler("init", "", "none")

SpecLedger == InitLedger /\ [][NextLedger]_vars

\* the ledger with the deep analysis
Next ==
  \/ FetchRates(R_USD_EUR_GBP)
  \/ \E u \in Usernames, isRegistering \in BOOLEAN : HandleSubmit(u, isRegistering)
  \/ HandleSubmitResumes
  \/ GoWelcome
  \/ \E mode \in ModeChoices : HandleUpdateMode(mode)
  \/ DemoNext
  \/ DashboardBack
  \/ \E text \in AmountInputs : SetAmount(text)
  \/ HandleAddTransaction(MaxTxAnalysed)
  \/ \E id \in Ids : HandleRemoveTransaction(id)
  \/ \E code \in CurrencyChoices : HandleUpdateCurrency(code)
  \/ ConvertingEnds
  \/ logout
  \/ RunAnalysis(1)
  \/ BackendAnswers(1)
  \/ TimeoutFires(1)
  \/ RunAnalysisResumes(1)

Init ==
  /\ API_KEY \in AppKeyValues
  /\ calls = [id \in CallIds |-> IdleCall]
  /\ InitApp
  /\ last = Handler("init", "", "none")

Spec == Init /\ [][Next]_vars

(***************************************************************************)
(* Properties of the service                                               *)
(***************************************************************************)
\* an outcome of fn that is a failure carrying the rate-limit signal
RateLimited(o) == ~o.ok /\ isRateLimit(o)

AIOps == {"analyzeFinances", "extractTransactionFromText"}

\* C2: when fn fails with a rate-limit error on its first k attempts
\* (1 <= k <= maxAttempts) and then succeeds, retry makes attempt k+1,
\* settles with that success after exactly k+1 invocations, and the waits
\* are d, 2d, ..., d*2^(k-1) in that order.
C2_RetrySucceedsAfterRateLimits ==
  \A id \in CallIds :
    LET c == calls[id] IN
    (c.pc = "done" /\ c.log # <<>>) =>
      \A k \in 1..c.maxAttempts :
        (Len(c.log) >= k /\ \A i \in 1..k : RateLimited(c.log[i])) =>
          /\ Len(c.log) >= k + 1
          /\ c.log[k + 1].ok =>
               /\ Len(c.log) = k + 1
               /\ c.settled = c.log[k + 1]
               /\ c.waits = [i \in 1..k |-> c.initialDelay * Pow2(i - 1)]

\* two rate-limit failures, then a success, with maxAttempts = 3
C2_Witness ==
  \E id \in CallIds :
    LET c == calls[id] IN
    /\ c.op = "retry" /\ c.pc = "done" /\ c.maxAttempts = 3 /\ Len(c.log) = 3
    /\ RateLimited(c.log[1]) /\ RateLimited(c.log[2]) /\ c.log[3].ok
    /\ c.settled = c.log[3]
    /\ c.waits = <<c.initialDelay, 2 * c.initialDelay>>

\* C3: a failure of fn without the rate-limit signal is never followed by
\* another invocation or by a wait: it is the last entry of the log, retry
\* has settled with that same error, and when it is the first attempt no
\* wait was made at all; whatever maxAttempts is.
C3_NoRetryOnOtherErrors ==
  \A id \in CallIds :
    LET c == calls[id] IN
    \A i \in 1..Len(c.log) :
      (~c.log[i].ok /\ ~isRateLimit(c.log[i])) =>
        /\ i = Len(c.log)
        /\ c.pc = "done"
        /\ c.settled = c.log[i]
        /\ Len(c.waits) = i - 1

\* a first attempt that fails without the signal although budget was left
C3_Witness ==
  \E id \in CallIds :
    LET c == calls[id] IN
    /\ c.op = "retry" /\ c.pc = "done" /\ c.maxAttempts = 3 /\ Len(c.log) = 1
    /\ ~c.log[1].ok /\ c.log[1].message = M_BOOM /\ c.settled = c.log[1]
    /\ c.waits = <<>>

\* C4: when every attempt fails with a rate-limit error, fn is invoked
\* exactly maxAttempts+1 times, retry settles with the last of these errors
\* and the waits sum to initialDelay * (2^maxAttempts - 1).
C4_RetryExhaustion ==
  \A id \in CallIds :
    LET c == calls[id] IN
    (c.pc = "done" /\ c.log # <<>> /\ \A i \in 1..Len(c.log) : RateLimited(c.log[i])) =>
      /\ Len(c.log) = c.maxAttempts + 1
      /\ c.settled = c.log[Len(c.log)]
      /\ SeqSum(c.waits) = c.initialDelay * (Pow2(c.maxAttempts) - 1)

\* the reference budget: 4 invocations, 7000 ms of waits, the last error of
\* a run whose errors differ
C4_Witness ==
  \E id \in CallIds :
    LET c == calls[id] IN
    /\ c.pc = "done" /\ c.maxAttempts = DefaultRetries /\ c.initialDelay = DefaultDelay
    /\ Len(c.log) = 4 /\ \A i \in 1..4 : RateLimited(c.log[i])
    /\ c.log[1] # c.log[4] /\ c.settled = c.log[4]
    /\ SeqSum(c.waits) = 7000

\* C5: with the API key absent or equal to the placeholder, analyzeFinances
\* and extractTransactionFromText fail with API_KEY_MISSING without any
\* backend invocation, any invocation of fn or any wait.
C5_MissingCredential ==
  \A id \in CallIds :
    LET c == calls[id] IN
    (c.op \in AIOps /\ API_KEY \in {Undefined, S_PLACEHOLDER}) =>
      /\ c.pc = "done"
      /\ c.backend = <<>> /\ c.log = <<>> /\ c.waits = <<>>
      /\ c.result = Err(S_API_KEY_MISSING, 0)

C5_Witness ==
  \E id \in CallIds :
    /\ calls[id].op = "extractTransactionFromText"
    /\ API_KEY = S_PLACEHOLDER
    /\ calls[id].result = Err(S_API_KEY_MISSING, 0)

\* C6: for both AI operations a first backend answer that is a failure
\* other than a rate limit (a thrown error without the signal, whatever its
\* message; a response without text; a text recoverJson rejects) reaches
\* the caller as a failure after exactly one backend invocation, with the
\* message it was raised with.
C6_FailuresReachCallerUnchanged ==
  \A id \in CallIds :
    LET c == calls[id] IN
    (c.op \in AIOps /\ c.pc = "done" /\ c.backend # <<>>) =>
      LET b == c.backend[1] IN
      /\ (b.throws /\ ~isRateLimit(b)) =>
           Len(c.backend) = 1 /\ ~c.result.ok /\ c.result.message = b.message
      /\ (~b.throws /\ b.text = Undefined) =>
           Len(c.backend) = 1 /\ ~c.result.ok
      /\ (~b.throws /\ ~Falsy(b.text) /\ ~recoverJson(b.text).ok) =>
           /\ Len(c.backend) = 1 /\ ~c.result.ok
           /\ c.result.message = recoverJson(b.text).message

(***************************************************************************)
(* Properties of the ledger                                                *)
(***************************************************************************)
\* handleUpdateCurrency has just run with rates for both currencies
Rebases ==
  /\ last'.op = "handleUpdateCurrency"
  /\ ~NoRate(rates, currentUser.currency.code)
  /\ ~NoRate(rates, last'.arg)

\* handleUpdateCurrency has just run without a rate for one of the currencies
RebaseRejected ==
  /\ last'.op = "handleUpdateCurrency"
  /\ NoRate(rates, currentUser.currency.code) \/ NoRate(rates, last'.arg)

\* the state after a rebase that took place
Rebased == last.op = "handleUpdateCurrency" /\ isConverting

\* C7: with rates for both currencies, a rebase from A to B replaces every
\* amount by amount * (rate(B) / rate(A)); with USD: 1 and EUR: 0.9 a rebase
\* from USD to EUR scales every amount by 0.9.
C7_RebaseScalesEveryAmount ==
  [][ Rebases =>
        LET old == currentUser.transactions
            new == currentUser'.transactions
            A == currentUser.currency.code
            B == last'.arg
        IN /\ currentUser'.currency.code = B
           /\ DOMAIN new = DOMAIN old
           /\ \A i \in DOMAIN old :
                new[i].amount = RMul(old[i].amount, RDiv(rates[B], rates[A]))
           /\ (A = "USD" /\ B = "EUR" /\ rates["USD"] = RInt(1) /\ rates["EUR"] = Rat(9, 10))
                => \A i \in DOMAIN old :
                     new[i].amount = Rat(old[i].amount[1] * 9, old[i].amount[2] * 10) ]_vars

\* 2.5 USD has become 2.25 EUR
C7_Witness ==
  /\ Rebased
  /\ currentUser.currency.code = "EUR"
  /\ rates = R_USD_EUR_GBP
  /\ Len(currentUser.transactions) = 2
  /\ currentUser.transactions[1].amount = Rat(9, 4)

\* C8: a rebase never drops, adds, duplicates or reorders transactions: the
\* new ledger has the length of the old one and, position by position, the
\* same id, category, description and date.
C8_RebaseKeepsTheTransactions ==
  [][ Rebases =>
        LET old == currentUser.transactions
            new == currentUser'.transactions
        IN /\ Len(new) = Len(old)
           /\ \A i \in 1..Len(old) :
                /\ new[i].id = old[i].id
                /\ new[i].category = old[i].category
                /\ new[i].description = old[i].description
                /\ new[i].date = old[i].date ]_vars

\* a ledger of two transactions that differ in id and category was rebased
C8_Witness ==
  /\ Rebased
  /\ Len(currentUser.transactions) = 2
  /\ currentUser.transactions[1].id # currentUser.transactions[2].id
  /\ currentUser.transactions[1].category # currentUser.transactions[2].category

\* C9: without a rate for the current or the target currency the rebase fails
\* with a RateUnavailable error outcome and converts nothing: amounts, order,
\* currency, stored analysis and current screen are left unchanged.
C9_RebaseFailsWithRateUnavailable ==
  [][ RebaseRejected =>
        /\ last'.threw = "RateUnavailable"
        /\ currentUser' = currentUser
        /\ localStorage' = localStorage
        /\ analysis' = analysis
        /\ currentScreen' = currentScreen ]_vars

\* I1 for one user record: every amount is in the currency of the record
SingleCurrency(user) ==
  \A i \in 1..Len(user.transactions) : user.transactions[i].unit = user.currency.code

\* C10: I1, in every reachable state every amount of the ledger is
\* denominated in the current currency of the ledger, in memory and in the
\* persisted storage, and the two agree while a user is signed in.
C10_AmountsInTheLedgerCurrency ==
  /\ SingleCurrency(currentUser)
  /\ \A u \in Usernames : SingleCurrency(localStorage[u])
  /\ currentUser # NoUser => localStorage[currentUser.username] = currentUser

\* a ledger of two transactions entered in different currencies, rebased,
\* after a logout and a sign-in
C10_Witness ==
  /\ currentUser # NoUser
  /\ \E u \in Usernames : localStorage[u] = currentUser
  /\ currentUser.currency.code = "EUR"
  /\ Len(currentUser.transactions) = 2
  /\ currentUser.transactions[1].amount = Rat(9, 4)
  /\ currentUser.transactions[2].amount = Rat(5, 2)
  /\ last.op = "handleAuthSuccess"

(***************************************************************************)
(* Properties of the deep analysis                                         *)
(***************************************************************************)
\* the DashboardScreen is rendered
DashboardShown ==
  currentScreen = "dashboard" /\ currentUser # NoUser /\ Truthy(analysis.value)

\* C1: I3, whenever the dashboard displays an analysis, the currency and the
\* contents of the ledger are those the analysis was computed from.
C1_DashboardShowsCurrentAnalysis ==
  DashboardShown =>
    /\ analysis.from.currency = currentUser.currency.code
    /\ analysis.from.transactions = currentUser.transactions

\* C11: a successful currency change publishes the rebased ledger and
\* discards the stored analysis in one step: right after it the user has the
\* new currency, the stored analysis is empty and the dashboard is not the
\* current screen, so no state shows the new currency with the old analysis.
C11_RebaseDiscardsTheAnalysis ==
  [][ Rebases =>
        /\ currentUser' = rebased(currentUser, rates, last'.arg)
        /\ localStorage'[currentUser.username] = currentUser'
        /\ analysis' = NoAnalysis
        /\ currentScreen' # "dashboard"
        /\ ~DashboardShown' ]_vars

\* the currency was changed on the dashboard, which showed an analysis
C11_Witness ==
  /\ Rebased
  /\ last.screen = "dashboard" /\ last.analysed
  /\ currentScreen = "input"
  /\ analysis = NoAnalysis
  /\ currentUser.transactions # <<>>
  /\ \A i \in 1..Len(currentUser.transactions) :
       currentUser.transactions[i].unit = "EUR" /\ currentUser.transactions[i].amount = Rat(9, 4)

\* C12: I2, for the ledger L of any reachable state, its currency A, any
\* currency B and the rate table R with rates for both, rebasing L from A to
\* B and the result back to A with R gives L again: every amount exactly (the
\* arithmetic is exact), and every other field, the order and the currency.
C12_RoundTrip ==
  currentUser # NoUser =>
    \A B \in CurrencyChoices :
      LET A == currentUser.currency.code IN
      (~NoRate(rates, A) /\ ~NoRate(rates, B)) =>
        LET there == rebased(currentUser, rates, B) IN
        /\ there.currency.code = B
        /\ rebased(there, rates, A) = currentUser

\* a ledger was rebased to EUR: its first amount, entered as 2.5 EUR and
\* rebased to USD in between, is 2.5 again; the second was entered in USD
C12_Witness ==
  /\ Rebased
  /\ last.arg = "EUR"
  /\ Len(currentUser.transactions) = 2
  /\ currentUser.transactions[1].amount = Rat(5, 2)
  /\ currentUser.transactions[2].amount = Rat(9, 4)
  /\ rebased(currentUser, rates, "USD").transactions[1].amount = Rat(25, 9)

(***************************************************************************)
(* Properties of recoverJson                                               *)
(***************************************************************************)
\* the invocations of recoverJson that have ended, and their texts
Recovered == {id \in CallIds : calls[id].op = "recoverJson" /\ calls[id].pc = "done"}
TextOf(id) == calls[id].backend[1].text

\* the text is the serialisation of a JSON object
ValidObject(core) == JSONparse(core).ok /\ JSONparse(core).val.t = "obj"

\* C13: for every valid JSON object v and every text made of the
\* serialisation of v, wrapped in fence markers or not, followed by prose or
\* not, recoverJson returns v: no key lost, no value inside altered.
C13_RecoverReturnsTheObject ==
  \A id \in Recovered :
    \A core \in ObjectTexts, fence \in BOOLEAN, prose \in Proses :
      (TextOf(id) = Wrap(core, fence, prose) /\ ValidObject(core))
        => calls[id].result = Ok(JSONparse(core).val)

\* text is empty or holds white space only
BlankText(text) == text # Undefined /\ \A i \in 1..Len(text) : text[i] \in WhiteSpace

\* C14: recoverJson fails with EMPTY_RESPONSE for every text that is empty
\* or consists of white space only.
C14_BlankTextIsEmptyResponse ==
  \A id \in Recovered :
    BlankText(TextOf(id)) => calls[id].result = Err(S_EMPTY_RESPONSE, 0)

\* position i of s is a comma that precedes a closing brace or bracket with
\* white space at most in between, or is white space between the two
BeforeClosing(s, i) ==
  \E c \in 1..i, j \in (i + 1)..Len(s) :
    /\ s[c] = ","
    /\ s[j] \in {"}", "]"}
    /\ \A k \in (c + 1)..(j - 1) : s[k] \in WhiteSpace

\* s without the positions BeforeClosing
RECURSIVE WithoutFrom(_, _)
WithoutFrom(s, i) ==
  IF i > Len(s) THEN <<>>
  ELSE (IF BeforeClosing(s, i) THEN <<>> ELSE <<s[i]>>) \o WithoutFrom(s, i + 1)

\* the candidate: from the first opening brace to the last closing brace
Candidate(c) == SubSeq(c, IndexOf(c, "{"), LastIndexOf(c, "}"))

\* an opening brace is followed, later, by a closing brace
HasSpan(text) ==
  \E i \in 1..Len(text), j \in 1..Len(text) : i < j /\ text[i] = "{" /\ text[j] = "}"

\* C15: when the direct parse fails, the repair removes every comma that
\* precedes, white space apart, a closing brace or bracket in the candidate
\* (first opening brace to last closing brace) and the result is parsed, so
\* {"a":1,} gives the object {a: 1}; when the direct parse succeeds its value
\* is returned and nothing is repaired.
C15_TrailingCommaRepair ==
  \A id \in Recovered :
    LET text == TextOf(id)
        direct == JSONparse(cleaned(text))
        fixed == JSONparse(WithoutFrom(Candidate(cleaned(text)), 1))
    IN ~Falsy(text) =>
         /\ direct.ok => calls[id].result = Ok(direct.val)
         /\ (~direct.ok /\ HasSpan(cleaned(text)))
              => calls[id].result = IF fixed.ok THEN Ok(fixed.val) ELSE Err(S_MALFORMED_DATA, 0)
         /\ text = T_TRAILING_COMMA
              => calls[id].result = Ok(JsObj(<<"a">> :> JsNum(RInt(1))))

\* {"a":[1,],} was repaired to {"a":[1]}
C15_Witness ==
  /\ 1 \in Recovered
  /\ TextOf(1) = T_COMMAS_NESTED
  /\ ~JSONparse(cleaned(T_COMMAS_NESTED)).ok
  /\ calls[1].result = Ok(JsObj(<<"a">> :> JsArr(<<JsNum(RInt(1))>>)))

\* C16: for a non-empty text that does not parse directly recoverJson fails
\* with NO_DATA_FOUND when no opening brace is followed by a closing one, and
\* with MALFORMED_DATA when there is such a span and the repaired candidate
\* does not parse; a value is returned only when the repaired candidate
\* parses, and it is the value of the whole candidate.
C16_UnrecoverableTextFails ==
  \A id \in Recovered :
    LET text == TextOf(id)
        direct == JSONparse(cleaned(text))
        fixed == JSONparse(FixTrailingCommas(Candidate(cleaned(text))))
    IN (~Falsy(text) /\ ~direct.ok) =>
         /\ ~HasSpan(text) => calls[id].result = Err(S_NO_DATA_FOUND, 0)
         /\ (HasSpan(text) /\ ~fixed.ok) => calls[id].result = Err(S_MALFORMED_DATA, 0)
         /\ calls[id].result.ok
              => HasSpan(text) /\ fixed.ok /\ calls[id].result = Ok(fixed.val)
         /\ ~calls[id].result.ok
              => calls[id].result.message \in {S_NO_DATA_FOUND, S_MALFORMED_DATA}

\* {"a":1} see {x} has failed with MALFORMED_DATA
C16_Witness ==
  /\ 1 \in Recovered
  /\ TextOf(1) = Wrap(T_OBJECT, FALSE, <<" ", "s", "e", "e", " ", "{", "x", "}">>)
  /\ calls[1].result = Err(S_MALFORMED_DATA, 0)
  /\ 2 \in Recovered
  /\ TextOf(2) = T_NO_JSON
  /\ calls[2].result = Err(S_NO_DATA_FOUND, 0)

(***************************************************************************)
(* Properties of the AI operations on a response without text              *)
(***************************************************************************)
\* the error kinds of the specification, by the message of the Error
ErrorKind(message) ==
  CASE message \in {S_EMPTY_RESPONSE, S_NULL_RESPONSE} -> "EmptyResponse"
    [] message = S_MALFORMED_DATA -> "MalformedData"
    [] message = S_NO_DATA_FOUND -> "NoDataFound"
    [] message = S_API_KEY_MISSING -> "ApiKeyMissing"
    [] OTHER -> "GenericBackendFailure"

\* the invocations of op that have ended after an answer of the backend
Answered(op) ==
  {id \in CallIds : calls[id].op = op /\ calls[id].pc = "done" /\ calls[id].backend # <<>>}

\* the last answer of the backend to the invocation
LastAnswer(id) == calls[id].backend[Len(calls[id].backend)]

\* C17: when the backend answers an analysis request with an absent or an
\* empty response text, analyzeFinances fails with EMPTY_RESPONSE: the
\* caller receives no value, and no empty or default object in its place.
C17_AnalyzeWithoutTextFails ==
  \A id \in Answered("analyzeFinances") :
    (~LastAnswer(id).throws /\ Falsy(LastAnswer(id).text)) =>
      /\ ~calls[id].result.ok
      /\ ErrorKind(calls[id].result.message) = "EmptyResponse"

\* C18: when the backend answers an extraction request without a response
\* text, extractTransactionFromText fails with the error of an empty
\* response, NULL_RESPONSE, raised before recoverJson is called (whose own
\* error would be EMPTY_RESPONSE), and the caller observes that error.
C18_ExtractWithoutTextFails ==
  \A id \in Answered("extractTransactionFromText") :
    (~LastAnswer(id).throws /\ Falsy(LastAnswer(id).text)) =>
      /\ calls[id].log[Len(calls[id].log)] = Err(S_NULL_RESPONSE, 0)
      /\ calls[id].result = Err(S_NULL_RESPONSE, 0)
      /\ ErrorKind(calls[id].result.message) = "EmptyResponse"
      /\ calls[id].result # recoverJson(LastAnswer(id).text)

\* an extraction was answered once, without a text
C18_Witness ==
  /\ 1 \in Answered("extractTransactionFromText")
  /\ calls[1].backend = <<Responds(Undefined)>>
  /\ calls[1].result = Err(S_NULL_RESPONSE, 0)

(***************************************************************************)
(* Properties of what the callers do with a recovered value                *)
(***************************************************************************)
F_summary == <<"s", "u", "m", "m", "a", "r", "y">>
F_healthScore == <<"h", "e", "a", "l", "t", "h", "S", "c", "o", "r", "e">>
F_anomalies == <<"a", "n", "o", "m", "a", "l", "i", "e", "s">>
F_categoryBreakdown == <<"c", "a", "t", "e", "g", "o", "r", "y", "B", "r", "e", "a", "k", "d", "o", "w", "n">>
F_trendAnalysis == <<"t", "r", "e", "n", "d", "A", "n", "a", "l", "y", "s", "i", "s">>

\* the fields of an AnalysisResult
AnalysisFields == {F_summary, F_healthScore, F_anomalies, F_categoryBreakdown, F_trendAnalysis}

\* val is an object that has every field of `fields`
HasFields(val, fields) == val.t = "obj" /\ fields \subseteq DOMAIN val.v

\* C19: a recovered value that is no object or lacks a required field is
\* reported as a failure and never becomes the analysis the dashboard shows.
C19_DashboardShowsValidatedAnalysis ==
  DashboardShown => HasFields(analysis.value, AnalysisFields)

(***************************************************************************)
(* DataInputScreen.handleSmartImport: the category of the extracted data   *)
(***************************************************************************)
MaxCategories == 2

\* (mutation: only a category that contains the returned one qualifies)
qualifiesOneWay(c, category) == Includes(toLowerCase(c), toLowerCase(category))

\* (mutation: every category qualifies, the first of the list is taken)
qualifiesAlways(c, category) == TRUE

\* the predicate of categories.find, category being (extracted.category || '')
qualifies(c, category) ==
  \/ Includes(toLowerCase(c), toLowerCase(category))
  \/ Includes(toLowerCase(category), toLowerCase(c))

\* categories.find(c => ...) from index i on; Undefined when nothing is found
RECURSIVE find(_, _, _)
find(categories, category, i) ==
  IF i > Len(categories) THEN Undefined
  ELSE IF qualifies(categories[i], category) THEN categories[i]
  ELSE find(categories, category, i + 1)

\* (mutation: the category of the extraction is taken as it is)
resolveCategoryAsGiven(category, categories) ==
  IF Falsy(category) THEN Undefined ELSE category

\* the value handleSmartImport passes to setActiveSubMode, Undefined when it
\* does not call it; category is extracted.category
resolveCategory(category, categories) ==
  IF ~Falsy(category) /\ (\E i \in 1..Len(categories) : categories[i] = category)
  THEN category
  ELSE LET fallback == find(categories, IF Falsy(category) THEN <<>> ELSE category, 1)
       IN IF ~Falsy(fallback) THEN fallback ELSE Undefined

N_Food == <<"F", "o", "o", "d">>
N_Rent == <<"R", "e", "n", "t">>
N_Transport == <<"T", "r", "a", "n", "s", "p", "o", "r", "t">>
N_LocalTransport == <<"L", "o", "c", "a", "l", " ", "T", "r", "a", "n", "s", "p", "o", "r", "t">>
N_Groceries == <<"G", "r", "o", "c", "e", "r", "i", "e", "s">>

\* category names of MODE_CONFIG the lists below are made of
CategoryNames == {N_Food, N_Rent, N_Transport, N_LocalTransport}

\* the lists of allowed categories: those of MODE_CONFIG, and the lists of
\* at most MaxCategories distinct names
CategoryLists ==
  { MODE_CONFIG[mode] : mode \in FinanceMode }
    \cup UNION { { c \in [1..n -> CategoryNames] : \A i, j \in 1..n : c[i] = c[j] => i = j }
                 : n \in 1..MaxCategories }

\* the categories the model returns: allowed names, names in another case,
\* longer and shorter names, a foreign name, the empty string
ReturnedCategories ==
  CategoryNames
    \cup { N_Groceries, <<"f", "o", "o", "d">>, <<"R", "E", "N", "T">>, <<"F", "a", "s", "t", " ", "F", "o", "o", "d">>, <<"p", "o", "r", "t">>,
           <<"X", "y", "z">>, <<>> }

\* handleSmartImport resolves extracted.category against categories
ResolveCategory(category, categories) ==
  /\ last' = [ op |-> "handleSmartImport", arg |-> "", threw |-> "none",
               screen |-> currentScreen, analysed |-> FALSE,
               category |-> category, categories |-> categories,
               activeSubMode |-> resolveCategory(category, categories) ]
  /\ UNCHANGED <<API_KEY, calls, appVars>>

NextResolve ==
  \E category \in ReturnedCategories, categories \in CategoryLists :
    ResolveCategory(category, categories)

InitResolve ==
  /\ API_KEY = S_KEY
  /\ calls = [id \in CallIds |-> IdleCall]
  /\ InitApp
  /\ last = Handler("init", "", "none")

SpecResolve == InitResolve /\ [][NextResolve]_vars

\* s occurs in t
Within(s, t) == \E k \in 0..(Len(t) - Len(s)) : SubSeq(t, k + 1, k + Len(s)) = s

\* the positions of C whose name substring-matches r in either direction
Matching(r, C) ==
  { i \in 1..Len(C) : \/ Within(toLowerCase(C[i]), toLowerCase(r))
                      \/ Within(toLowerCase(r), toLowerCase(C[i])) }

\* the reference: r when it is an element of C, else the first match
Reference(r, C) ==
  IF \E i \in 1..Len(C) : C[i] = r THEN r
  ELSE IF Matching(r, C) = {} THEN Undefined
  ELSE C[CHOOSE i \in Matching(r, C) : \A j \in Matching(r, C) : i <= j]

Resolved == last.op = "handleSmartImport"

\* C20: the resolved category equals the reference for every returned
\* category r and allowed list C: r when r is an element of C, else the first
\* element of C that contains r or is contained in r, case-insensitively.
C20_ResolutionEqualsReference ==
  Resolved => last.activeSubMode = Reference(last.category, last.categories)

\* an exact match won although an earlier element substring-matches
C20_Witness ==
  /\ Resolved
  /\ last.activeSubMode = last.category
  /\ \E i, j \in 1..Len(last.categories) :
       /\ i < j
       /\ last.categories[j] = last.category
       /\ i \in Matching(last.category, last.categories)

\* r names an allowed category of C: exactly, or by a substring match
Matches(r, C) == ~Falsy(r) /\ Reference(r, C) # Undefined

\* C21: when the returned category matches no allowed category (the empty
\* string included) the resolution yields none, so that the active category
\* is kept; no arbitrary category is selected.
C21_NoMatchYieldsNone ==
  Resolved /\ ~Matches(last.category, last.categories) => last.activeSubMode = Undefined

N_Xyz == <<"X", "y", "z">>

\* the allowed list of the example
FoodRent == <<N_Food, N_Rent>>

\* C22 (as stated): resolve("Groceries", ["Food","Rent"]) is "Food" and
\* resolve("Xyz", ["Food","Rent"]) is none.
C22_GroceriesResolvesToFood ==
  Resolved /\ last.categories = FoodRent =>
    /\ last.category = N_Groceries => last.activeSubMode = N_Food
    /\ last.category = N_Xyz => last.activeSubMode = Undefined

\* C22 (amended): resolve("Groceries", ["Food","Rent"]) is none, neither name
\* containing the other, and resolve("Xyz", ["Food","Rent"]) is none.
C22_GroceriesResolvesToNone ==
  Resolved /\ last.categories = FoodRent /\ last.category \in {N_Groceries, N_Xyz} =>
    last.activeSubMode = Undefined

C22_Witness ==
  /\ Resolved
  /\ last.categories = FoodRent
  /\ last.category = N_Groceries
  /\ last.activeSubMode = Undefined

(***************************************************************************)
(* DataInputScreen: the smart import                                       *)
(***************************************************************************)
MaxTimers == 2

F_amount == <<"a", "m", "o", "u", "n", "t">>
F_description == <<"d", "e", "s", "c", "r", "i", "p", "t", "i", "o", "n">>
F_category == <<"c", "a", "t", "e", "g", "o", "r", "y">>
F_date == <<"d", "a", "t", "e">>

\* extracted[key]
Field(val, key) == IF val.t = "obj" /\ key \in DOMAIN val.v THEN val.v[key] ELSE JsUndefined

DigitChars == <<"0", "1", "2", "3", "4", "5", "6", "7", "8", "9">>

RECURSIVE NatToString(_)
NatToString(n) ==
  IF n < 10 THEN <<DigitChars[n + 1]>>
  ELSE NatToString(n \div 10) \o <<DigitChars[(n % 10) + 1]>>

\* the decimal digits of n/d, for 0 <= n < d and d a divisor of a power of 10
RECURSIVE FractionDigits(_, _)
FractionDigits(n, d) ==
  IF n = 0 THEN <<>>
  ELSE <<DigitChars[((n * 10) \div d) + 1]>> \o FractionDigits((n * 10) % d, d)

\* Number.prototype.toString for a number JSON.parse gave (positional notation)
NumberToString(r) ==
  LET n == Abs(r[1])
      d == r[2]
  IN (IF r[1] < 0 THEN <<"-">> ELSE <<>>)
       \o NatToString(n \div d)
       \o (IF n % d = 0 THEN <<>> ELSE <<".">> \o FractionDigits(n % d, d))

S_OBJECT_OBJECT == <<"[", "o", "b", "j", "e", "c", "t", " ", "O", "b", "j", "e", "c", "t", "]">>

\* extracted.amount.toString() for any value but null and undefined; an array
\* joins the strings of its elements, null and undefined giving ''
RECURSIVE ToStringOf(_), JoinFrom(_, _)
JoinFrom(a, i) ==
  IF i > Len(a) THEN <<>>
  ELSE (IF i > 1 THEN <<",">> ELSE <<>>)
         \o (IF a[i].t \in {"null", "undefined"} THEN <<>> ELSE ToStringOf(a[i]))
         \o JoinFrom(a, i + 1)

ToStringOf(val) ==
  CASE val.t = "num" -> NumberToString(val.v)
    [] val.t = "str" -> val.v
    [] val.t = "bool" -> IF val.v THEN <<"t", "r", "u", "e">> ELSE <<"f", "a", "l", "s", "e">>
    [] val.t = "obj" -> S_OBJECT_OBJECT
    [] val.t = "arr" -> JoinFrom(val.v, 1)

\* a string field, or '' as (field || '') gives for a missing or falsy one
StringOr(val) == IF val.t = "str" THEN val.v ELSE <<>>

\* the try block of handleSmartImport after its await: the form it leaves
\* and the toast it ends with ("generic" when it threw)
Imported(inp, extracted, categories) ==
  LET amount == Field(extracted, F_amount)
      category == Field(extracted, F_category)
      date == Field(extracted, F_date)
      filled == [inp EXCEPT !.amount = ToStringOf(amount),
                            !.desc = StringOr(Field(extracted, F_description))]
      target == resolveCategory(StringOr(category), categories)
  IN IF ~Truthy(extracted) \/ amount = JsUndefined
     THEN [inp |-> inp, toast |-> "generic"]
     ELSE IF amount.t = "null"
     THEN [inp |-> inp, toast |-> "generic"]
     ELSE IF Truthy(category) /\ category.t # "str"
     THEN [inp |-> filled, toast |-> "generic"]
     ELSE [inp |-> [filled EXCEPT
                      !.activeSubMode = IF target = Undefined THEN @ ELSE target,
                      !.date = IF Truthy(date) THEN StringOr(date) ELSE @,
                      !.smsText = <<>>,
                      !.hideTimers = @ + 1],
           toast |-> "success"]

\* {"amount":5,"category":"groceries"}
T_EXTRACTED == <<"{", "\"", "a", "m", "o", "u", "n", "t", "\"", ":", "5", ",", "\"", "c", "a", "t", "e", "g", "o", "r", "y", "\"", ":", "\"", "g", "r", "o", "c", "e", "r", "i", "e", "s", "\"", "}">>

\* the answers of the backend to an extraction request
ImportBackendOutcomes == {Throws(M_HTTP_429, 429), Responds(T_EXTRACTED), Responds(T_OBJECT)}

S_BLANK == <<" ">>
S_SMS == <<"p", "a", "i", "d", " ", "5">>

\* what the user types into the textarea
SmsInputs == {S_BLANK, S_SMS}

\* mockWebFeeds, each feed by its first word
mockWebFeeds == << <<"I", "n", "t", "e", "r", "n", "e", "t">>, <<"W", "e", "b">>, <<"O", "n", "l", "i", "n", "e">> >>

\* the button of the Cloud Import card
ToggleSmartImport ==
  /\ input.mounted
  /\ input' = [input EXCEPT !.showSmartImport = ~@]
  /\ last' = Handler("setShowSmartImport", "", "none")
  /\ UNCHANGED <<API_KEY, calls, currentUser, currentScreen, analysis, rates, isConverting,
                 localStorage, login, requests>>

SetSmsText(text) ==
  /\ input.mounted /\ input.showSmartImport
  /\ input' = [input EXCEPT !.smsText = text]
  /\ last' = Handler("setSmsText", "", "none")
  /\ UNCHANGED <<API_KEY, calls, currentUser, currentScreen, analysis, rates, isConverting,
                 localStorage, login, requests>>

\* handleFetchFromWeb up to its await; the button is disabled while a fetch
\* or an extraction runs
HandleFetchFromWeb ==
  /\ input.mounted /\ input.showSmartImport
  /\ ~(input.isWebFetching \/ input.isExtracting)
  /\ input' = [input EXCEPT !.isWebFetching = TRUE]
  /\ last' = Notify("handleFetchFromWeb", "", "info")
  /\ UNCHANGED <<API_KEY, calls, currentUser, currentScreen, analysis, rates, isConverting,
                 localStorage, login, requests>>

\* handleFetchFromWeb after its delay
FetchFromWebResumes ==
  /\ input.mounted /\ input.isWebFetching
  /\ input' = [input EXCEPT !.cloudAlerts = mockWebFeeds, !.isWebFetching = FALSE]
  /\ last' = Notify("handleFetchFromWeb", "", "success")
  /\ UNCHANGED <<API_KEY, calls, currentUser, currentScreen, analysis, rates, isConverting,
                 localStorage, login, requests>>

\* handleSmartImport(textToProcess) up to its await, in slot id
handleSmartImport(id, control, textToProcess) ==
  /\ calls[id].pc = "idle" /\ ~requests[id].pending
  /\ \A other \in CallIds : other < id => requests[other].pending
  /\ IF Falsy(Trim(textToProcess))
     THEN UNCHANGED <<calls, input, requests>>
     ELSE /\ calls' = [calls EXCEPT ![id] = extractTransactionFromText(API_KEY)]
          /\ input' = [input EXCEPT !.isExtracting = TRUE]
          /\ requests' = [requests EXCEPT ![id] =
                            [pending |-> TRUE, mounted |-> TRUE, from |-> NoSnapshot]]
  /\ last' = Handler("handleSmartImport", control, "none") @@ [text |-> textToProcess]
  /\ UNCHANGED <<API_KEY, currentUser, currentScreen, analysis, rates, isConverting,
                 localStorage, login>>

\* the button Extract Manual Snippet: disabled={isExtracting || !smsText.trim()}
ExtractManualSnippet(id) ==
  /\ input.mounted /\ input.showSmartImport
  /\ ~(input.isExtracting \/ Falsy(Trim(input.smsText)))
  /\ handleSmartImport(id, "manual", input.smsText)

\* an entry of the cloud alerts: onClick={() => handleSmartImport(alert)}
ExtractThisNow(id, n) ==
  /\ input.mounted /\ input.showSmartImport
  /\ n \in 1..Len(input.cloudAlerts)
  /\ handleSmartImport(id, "alert", input.cloudAlerts[n])

\* the backend answers the request of a suspended handleSmartImport with one
\* of `outcomes`
ExtractionAnswersFrom(id, outcomes) ==
  /\ calls[id].pc = "fn" /\ requests[id].pending
  /\ calls[id].op = "extractTransactionFromText"
  /\ \E b \in outcomes : calls' = [calls EXCEPT ![id] = FnSettles(calls[id], b)]
  /\ last' = Handler("fn", "", "none")
  /\ UNCHANGED <<API_KEY, appVars>>

ExtractionAnswers(id) == ExtractionAnswersFrom(id, ImportBackendOutcomes)

\* handleSmartImport after its await: the try block or the catch block, then
\* finally { setIsExtracting(false) }, on the component that started it
HandleSmartImportResumes(id) ==
  /\ calls[id].pc = "done" /\ requests[id].pending
  /\ calls[id].op = "extractTransactionFromText"
  /\ LET out == calls[id].result
         done == IF out.ok
                 THEN Imported(input, out.value, MODE_CONFIG[currentUser.mode])
                 ELSE [inp |-> input, toast |-> importAdvice(out.message)]
     IN /\ requests[id].mounted => done.inp.hideTimers <= MaxTimers
        /\ input' = IF requests[id].mounted
                    THEN [done.inp EXCEPT !.isExtracting = FALSE]
                    ELSE input
        /\ last' = Notify("handleSmartImport", "await",
                          IF out.ok /\ ~requests[id].mounted THEN "success" ELSE done.toast)
  /\ requests' = [requests EXCEPT ![id] = NoRequest]
  /\ calls' = [calls EXCEPT ![id] = IdleCall]
  /\ UNCHANGED <<API_KEY, currentUser, currentScreen, analysis, rates, isConverting,
                 localStorage, login>>

\* setTimeout(() => setShowSmartImport(false), 1200) fires
HideSmartImport ==
  /\ input.mounted /\ input.hideTimers > 0
  /\ input' = [input EXCEPT !.showSmartImport = FALSE, !.hideTimers = @ - 1]
  /\ last' = Handler("setTimeout", "", "none")
  /\ UNCHANGED <<API_KEY, calls, currentUser, currentScreen, analysis, rates, isConverting,
                 localStorage, login, requests>>

\* the input screen with its smart import, two requests at most in flight
NextImport ==
  \/ \E u \in Usernames, isRegistering \in BOOLEAN : HandleSubmit(u, isRegistering)
  \/ HandleSubmitResumes
  \/ \E mode \in ModeChoices : HandleUpdateMode(mode)
  \/ DemoNext
  \/ logout
  \/ ToggleSmartImport
  \/ \E text \in SmsInputs : SetSmsText(text)
  \/ HandleFetchFromWeb
  \/ FetchFromWebResumes
  \/ \E id \in CallIds : ExtractManualSnippet(id)
  \/ \E id \in CallIds, n \in 1..3 : ExtractThisNow(id, n)
  \/ \E id \in CallIds : ExtractionAnswers(id)
  \/ \E id \in CallIds : TimeoutFires(id)
  \/ \E id \in CallIds : HandleSmartImportResumes(id)
  \/ HideSmartImport
  \/ \E id \in CallIds : RunAnalysis(id)

InitImport ==
  /\ API_KEY \in AppKeyValues
  /\ calls = [id \in CallIds |-> IdleCall]
  /\ InitApp
  /\ last = Handler("init", "", "none")

SpecImport == InitImport /\ [][NextImport]_vars

(***************************************************************************)
(* Properties of the requests of the input screen                          *)
(***************************************************************************)
\* the requests of operation op that are outstanding: issued by a handler and
\* not settled yet
Outstanding(op) ==
  { id \in CallIds : requests[id].pending /\ calls[id].op = op /\ calls[id].pc \in {"fn", "sleep"} }

\* C23: at most one extraction request is outstanding at any time, every
\* control that starts an extraction being disabled while one is in flight.
C23_OneExtractionAtATime == Cardinality(Outstanding("extractTransactionFromText")) <= 1

\* the input screen with its deep analysis, two requests at most in flight
NextDeepDive ==
  \/ \E u \in Usernames, isRegistering \in BOOLEAN : HandleSubmit(u, isRegistering)
  \/ HandleSubmitResumes
  \/ GoWelcome
  \/ \E mode \in ModeChoices : HandleUpdateMode(mode)
  \/ DemoNext
  \/ DashboardBack
  \/ \E text \in AmountInputs : SetAmount(text)
  \/ HandleAddTransaction(MaxTxAnalysed)
  \/ \E id \in CallIds : RunAnalysis(id)
  \/ \E id \in CallIds : BackendAnswers(id)
  \/ \E id \in CallIds : TimeoutFires(id)
  \/ \E id \in CallIds : RunAnalysisResumes(id)

InitDeepDive ==
  /\ API_KEY = S_KEY
  /\ calls = [id \in CallIds |-> IdleCall]
  /\ InitApp
  /\ last = Handler("init", "", "none")

SpecDeepDive == InitDeepDive /\ [][NextDeepDive]_vars

\* C24: at most one analysis request is outstanding at any time, the
\* deep-analysis control being disabled from the moment a request is issued
\* until it completes or fails.
C24_OneAnalysisAtATime == Cardinality(Outstanding("analyzeFinances")) <= 1

\* the caller of request id resumes in this step with a failure
ResumesWithFailure(id) ==
  /\ requests[id].pending /\ ~requests'[id].pending
  /\ calls[id].pc = "done" /\ ~calls[id].result.ok

\* the advice the failure calls for
AdviceFor(out) ==
  IF out.message = S_API_KEY_MISSING THEN "configuration"
  ELSE IF RateLimited(out) THEN "try_again"
  ELSE "generic"

\* C25: smart import and deep analysis map each failure to one of three
\* outcomes: the exhausted rate limit to the try-again advice, the missing
\* credential to the configuration advice, any other failure to the generic
\* advice.
C25_EachFailureHasItsAdvice ==
  [][\A id \in CallIds :
       ResumesWithFailure(id) => last'.toast = AdviceFor(calls[id].result)]_vars

\* a request of operation op is issued in slot id by this step
Issues(id, op) == calls[id].pc = "idle" /\ calls'[id].pc # "idle" /\ calls'[id].op = op

\* this step is handleSmartImport called with a text that trims to nothing
BlankImport ==
  /\ last'.op = "handleSmartImport" /\ last'.arg \in {"manual", "alert"}
  /\ Falsy(Trim(last'.text))

\* this step is runAnalysis called on an empty ledger
EmptyAnalysis == last'.op = "runAnalysis" /\ currentUser.transactions = <<>>

\* C26: the AI client is never invoked with empty input: no extraction
\* request is issued for a text that is empty after trimming and no analysis
\* request for an empty ledger; such a call sets no busy flag and changes
\* nothing but the notification.
C26_NoRequestForEmptyInput ==
  [][/\ \A id \in CallIds :
          /\ Issues(id, "extractTransactionFromText") => ~Falsy(Trim(last'.text))
          /\ Issues(id, "analyzeFinances") => currentUser.transactions # <<>>
     /\ BlankImport \/ EmptyAnalysis => UNCHANGED <<API_KEY, calls, appVars>>
     /\ EmptyAnalysis => last'.toast = "ledger_empty"]_vars

\* runAnalysis has run on an empty ledger while the textarea holds blanks
C26_Witness ==
  /\ last.op = "runAnalysis" /\ last.toast = "ledger_empty"
  /\ currentUser # NoUser /\ currentUser.transactions = <<>>
  /\ input.showSmartImport /\ input.smsText = S_BLANK
  /\ ~input.isAnalyzing /\ ~input.isExtracting
  /\ \A id \in CallIds : calls[id] = IdleCall

(***************************************************************************)
(* Properties of retry: the budget of zero, termination, concurrency       *)
(***************************************************************************)
\* C27: retry with maxAttempts = 0 invokes the operation exactly once and
\* settles with its value or its error unchanged, without any wait, also
\* when the error is a rate-limit error.
C27_ZeroBudgetIsOneAttempt ==
  \A id \in CallIds :
    LET c == calls[id] IN
    (c.op = "retry" /\ c.maxAttempts = 0) =>
      /\ c.pc # "sleep"
      /\ c.waits = <<>>
      /\ Len(c.log) <= 1
      /\ c.pc = "done" => /\ Len(c.log) = 1
                          /\ c.settled = c.log[1]
                          /\ c.result = c.log[1]

\* a rate-limit error was the only attempt of a budget of zero
C27_Witness ==
  \E id \in CallIds :
    LET c == calls[id] IN
    /\ c.op = "retry" /\ c.maxAttempts = 0 /\ c.pc = "done"
    /\ Len(c.log) = 1 /\ RateLimited(c.log[1])
    /\ c.result = c.log[1] /\ c.waits = <<>>

\* the service when every attempt of the operation and every wait completes
SpecServiceFair ==
  /\ InitOfService
  /\ [][NextService]_vars
  /\ \A id \in CallIds : WF_vars(FnReturns(id)) /\ WF_vars(TimeoutFires(id))

\* retry has settled: with a success, with a failure that is not transient,
\* or with the rate-limit error once the budget is used up
Completed(c) ==
  /\ c.pc = "done"
  /\ \/ c.settled.ok
     \/ ~isRateLimit(c.settled)
     \/ c.retries = 0 /\ Len(c.log) = c.maxAttempts + 1

\* C28: every invocation of retry eventually completes, with the success of
\* the operation, with a non-transient failure or with the rate-limit error
\* after the budget is used up, when every attempt and every wait completes.
C28_RetryCompletes ==
  \A id \in CallIds :
    (calls[id].pc \in {"fn", "sleep"}) ~> Completed(calls[id])

\* the budget of three was used up by four rate-limit errors
C28_Witness ==
  \E id \in CallIds :
    LET c == calls[id] IN
    /\ c.op = "retry" /\ Completed(c) /\ c.maxAttempts = MaxAttempts
    /\ Len(c.log) = MaxAttempts + 1 /\ RateLimited(c.settled)

\* retry invoked by two callers at once, for independent operations
NextConcurrent ==
  \/ \E id \in CallIds : CallRetry(id)
  \/ \E id \in CallIds : FnReturns(id)
  \/ \E id \in CallIds : TimeoutFires(id)
  \/ \E id \in CallIds : CallerResumes(id)

InitConcurrent ==
  /\ API_KEY = S_KEY
  /\ calls = [id \in CallIds |-> IdleCall]
  /\ InitApp
  /\ last = Handler("init", "", "none")

SpecConcurrent == InitConcurrent /\ [][NextConcurrent]_vars

\* the failures of the log that were followed by a wait
Retried(c) == { i \in 1..Len(c.log) : RateLimited(c.log[i]) /\ i <= c.maxAttempts }

\* the waits of c that are over (the budget and the delay change after a wait)
Resumed(c) == Len(c.waits) - (IF c.pc = "sleep" THEN 1 ELSE 0)

\* the attempts, the budget and the delays of c follow from its own
\* arguments and the outcomes of its own operation
OwnOutcomesOnly(c) ==
  /\ Len(c.waits) = Cardinality(Retried(c))
  /\ c.waits = [i \in 1..Len(c.waits) |-> c.initialDelay * Pow2(i - 1)]
  /\ c.retries = c.maxAttempts - Resumed(c)
  /\ c.delay = c.initialDelay * Pow2(Resumed(c))
  /\ Len(c.log) = Len(c.waits) + (IF c.pc = "done" THEN 1 ELSE 0)

\* C29: two retry invocations running concurrently do not interfere: under
\* every interleaving the attempts, the remaining budget and the delays of
\* each depend on the outcomes of its own operation only.
C29_ConcurrentRetriesAreIndependent ==
  \A id \in CallIds : calls[id].op = "retry" => OwnOutcomesOnly(calls[id])

\* two invocations in progress with different delays, one waiting for the
\* second time, the other settled after one wait
C29_Witness ==
  /\ calls[1].op = "retry" /\ calls[2].op = "retry"
  /\ calls[1].initialDelay # calls[2].initialDelay
  /\ calls[1].pc = "sleep" /\ Len(calls[1].waits) = 2
  /\ calls[2].pc = "done" /\ Len(calls[2].waits) = 1 /\ calls[2].retries > 0

(***************************************************************************)
(* The ledger under rate tables that hold a zero or a negative rate        *)
(***************************************************************************)
R_ZERO == ("USD" :> RInt(1) @@ "EUR" :> RInt(0))
R_NEGATIVE == ("USD" :> RInt(1) @@ "EUR" :> Rat(-9, 10))

\* the answers of a rate provider that is not trusted
AnyRateTables == RateTables \cup {R_ZERO, R_NEGATIVE}

NextRates ==
  \/ \E table \in AnyRateTables : FetchRates(table)
  \/ \E u \in Usernames, isRegistering \in BOOLEAN : HandleSubmit(u, isRegistering)
  \/ HandleSubmitResumes
  \/ \E mode \in ModeChoices : HandleUpdateMode(mode)
  \/ DemoNext
  \/ \E text \in AmountInputs : SetAmount(text)
  \/ HandleAddTransaction(MaxTxAnalysed)
  \/ \E code \in CurrencyChoices : HandleUpdateCurrency(code)
  \/ ConvertingEnds

InitRates ==
  /\ API_KEY = S_KEY
  /\ calls = [id \in CallIds |-> IdleCall]
  /\ InitApp
  /\ last = Handler("init", "", "none")

SpecRates == InitRates /\ [][NextRates]_vars

\* the table holds a rate for code that is zero or negative
BadRate(rts, code) == code \in DOMAIN rts /\ rts[code][1] <= 0

\* C30: a rate of zero or below for the current or the target currency is
\* treated like a missing rate: the rebase is rejected, the amounts and the
\* currency of the ledger stay as they are.
C30_BadRateRejectsTheRebase ==
  [][ ( /\ last'.op = "handleUpdateCurrency"
        /\ BadRate(rates, currentUser.currency.code) \/ BadRate(rates, last'.arg) )
      => currentUser' = currentUser ]_vars

(***************************************************************************)
(* Properties of the ledger's transactions                                 *)
(***************************************************************************)
\* no two transactions of the ledger have the same id
UniqueIds(transactions) ==
  \A i, j \in 1..Len(transactions) : i # j => transactions[i].id # transactions[j].id

\* C31: after any sequence of add, remove and rebase operations no two
\* transactions of the ledger have the same id (so that removing by id
\* removes exactly one transaction)
C31_IdsAreUnique == UniqueIds(currentUser.transactions)

(***************************************************************************)
(* Properties of the screens                                               *)
(***************************************************************************)
\* C32: in every reachable state no user is signed in exactly when the
\* current screen is the auth screen, also after an analysis request that
\* completes once the user has logged out
C32_SignedOutIffAuthScreen == (currentUser = NoUser) <=> (currentScreen = "auth")

(***************************************************************************)
(* The busy flags of the input screen                                      *)
(***************************************************************************)
\* the input screen with its smart import and its deep analysis, one request
\* in flight at a time
NextBusy ==
  \/ \E u \in Usernames, isRegistering \in BOOLEAN : HandleSubmit(u, isRegistering)
  \/ HandleSubmitResumes
  \/ \E mode \in ModeChoices : HandleUpdateMode(mode)
  \/ DemoNext
  \/ logout
  \/ HandleAddTransaction(MaxTxAnalysed)
  \/ ToggleSmartImport
  \/ SetSmsText(S_SMS)
  \/ ExtractManualSnippet(1)
  \/ ExtractionAnswers(1)
  \/ TimeoutFires(1)
  \/ HandleSmartImportResumes(1)
  \/ HideSmartImport
  \/ RunAnalysis(1)
  \/ BackendAnswers(1)
  \/ RunAnalysisResumes(1)

InitBusy ==
  /\ API_KEY \in AppKeyValues
  /\ calls = [id \in CallIds |-> IdleCall]
  /\ InitApp
  /\ last = Handler("init", "", "none")

\* ENABLED <<ExtractionAnswers(id)>>_vars, ENABLED <<BackendAnswers(id)>>_vars
\* and ENABLED <<HandleSmartImportResumes(id)>>_vars written out: the guards
\* of these actions, each of whose steps changes calls
AwaitsAnswer(id, op) ==
  calls[id].pc = "fn" /\ requests[id].pending /\ calls[id].op = op

AwaitsImportResume(id) ==
  /\ calls[id].pc = "done" /\ requests[id].pending
  /\ calls[id].op = "extractTransactionFromText"
  /\ (requests[id].mounted /\ calls[id].result.ok) =>
       Imported(input, calls[id].result.value, MODE_CONFIG[currentUser.mode]).inp.hideTimers
         <= MaxTimers

\* the backend answers every request, every timeout fires and every
\* continuation of an await runs: weak fairness of each of these steps
SpecBusyFair ==
  /\ InitBusy /\ [][NextBusy]_vars
  /\ WF_vars(TimeoutFires(1))
  /\ WF_vars(HideSmartImport)
  /\ WF_vars(RunAnalysisResumes(1))
  /\ []<>~AwaitsAnswer(1, "extractTransactionFromText") \/ []<><<ExtractionAnswers(1)>>_vars
  /\ []<>~AwaitsAnswer(1, "analyzeFinances") \/ []<><<BackendAnswers(1)>>_vars
  /\ []<>~AwaitsImportResume(1) \/ []<><<HandleSmartImportResumes(1)>>_vars

\* C33: every smart import and every deep analysis that issues a request
\* eventually ends with its busy flag reset to false, whatever the outcome of
\* the request
C33_BusyFlagsAreReset ==
  /\ input.isExtracting ~> ~input.isExtracting
  /\ input.isAnalyzing ~> ~input.isAnalyzing

\* a smart import whose retries were exhausted has ended with the flag reset
C33_Witness ==
  /\ last.op = "handleSmartImport" /\ last.arg = "await" /\ last.toast = "try_again"
  /\ input.mounted /\ ~input.isExtracting /\ ~input.isAnalyzing
  /\ Len(currentUser.transactions) > 0

(***************************************************************************)
(* The entry form under the smart import                                   *)
(***************************************************************************)
\* {"amount":5,"category":7}
T_CATEGORY_NUMBER == <<"{", "\"", "a", "m", "o", "u", "n", "t", "\"", ":", "5", ",", "\"", "c", "a", "t", "e", "g", "o", "r", "y", "\"", ":", "7", "}">>
\* {"amount":5,"category":"zzz"}
T_CATEGORY_UNKNOWN == <<"{", "\"", "a", "m", "o", "u", "n", "t", "\"", ":", "5", ",", "\"", "c", "a", "t", "e", "g", "o", "r", "y", "\"", ":", "\"", "z", "z", "z", "\"", "}">>
\* {"amount":null}
T_AMOUNT_NULL == <<"{", "\"", "a", "m", "o", "u", "n", "t", "\"", ":", "n", "u", "l", "l", "}">>

\* the answers of the backend to an extraction request, valid or not
FormBackendOutcomes ==
  { Throws(M_HTTP_429, 429), Responds(T_EXTRACTED), Responds(T_OBJECT),
    Responds(T_CATEGORY_NUMBER), Responds(T_CATEGORY_UNKNOWN), Responds(T_AMOUNT_NULL) }

\* the profiles the user changes between
ProfileChoices == {"Family", "Individual"}

\* the input screen with its entry form and its smart import
NextForm ==
  \/ \E u \in Usernames, isRegistering \in BOOLEAN : HandleSubmit(u, isRegistering)
  \/ HandleSubmitResumes
  \/ GoWelcome
  \/ \E mode \in ProfileChoices : HandleUpdateMode(mode)
  \/ DemoNext
  \/ \E n \in TabChoices : SetActiveSubMode(n)
  \/ HandleAddTransaction(MaxTxAnalysed)
  \/ ToggleSmartImport
  \/ SetSmsText(S_SMS)
  \/ ExtractManualSnippet(1)
  \/ ExtractionAnswersFrom(1, FormBackendOutcomes)
  \/ TimeoutFires(1)
  \/ HandleSmartImportResumes(1)
  \/ HideSmartImport

InitForm ==
  /\ API_KEY \in AppKeyValues
  /\ calls = [id \in CallIds |-> IdleCall]
  /\ InitApp
  /\ last = Handler("init", "", "none")

SpecForm == InitForm /\ [][NextForm]_vars

\* amount, description, active category and date of the entry form
FormFields(inp) == <<inp.amount, inp.desc, inp.activeSubMode, inp.date>>

\* this step is the continuation of a smart import that ends with `toasts`
ImportEnds(toasts) ==
  last'.op = "handleSmartImport" /\ last'.arg = "await" /\ last'.toast \in toasts

\* C34: an extraction never changes the ledger (transactions, currency, stored
\* analysis), a failed extraction or one without an amount leaves the fields
\* of the entry form unchanged, and a transaction enters the ledger only
\* through the Log action
C34_ExtractionOnlyPrefillsTheForm ==
  [][ /\ last'.op = "handleSmartImport" =>
           /\ currentUser' = currentUser
           /\ analysis' = analysis
           /\ localStorage' = localStorage
      /\ ImportEnds({"try_again", "configuration", "generic"}) =>
           FormFields(input') = FormFields(input)
      /\ Len(currentUser'.transactions) > Len(currentUser.transactions) =>
           last'.op = "handleAddTransaction" ]_vars

\* the categories of the mounted entry form: MODE_CONFIG[user.mode]
Categories == MODE_CONFIG[currentUser.mode]

\* C35: in every reachable state of the data-entry screen the active category
\* is a member of the category list of the current profile mode, whatever
\* category the extraction returned
C35_ActiveCategoryIsListed ==
  input.mounted => \E n \in 1..Len(Categories) : Categories[n] = input.activeSubMode

\* the import of "groceries" has selected Groceries, the second category of
\* the Family profile
C35_Witness ==
  /\ last.op = "handleSmartImport" /\ last.arg = "await" /\ last.toast = "success" /\ input.mounted
  /\ calls[1].pc = "idle"
  /\ currentUser.mode = "Family"
  /\ input.activeSubMode = MODE_CONFIG["Family"][2]
  /\ input.amount = <<"5">>

(***************************************************************************)
(* The ledger under changes of the profile                                 *)
(***************************************************************************)
NextModes ==
  \/ \E u \in Usernames, isRegistering \in BOOLEAN : HandleSubmit(u, isRegistering)
  \/ HandleSubmitResumes
  \/ GoWelcome
  \/ \E mode \in ProfileChoices : HandleUpdateMode(mode)
  \/ DemoNext
  \/ \E text \in AmountInputs : SetAmount(text)
  \/ \E n \in TabChoices : SetActiveSubMode(n)
  \/ HandleAddTransaction(MaxTx)
  \/ \E id \in Ids : HandleRemoveTransaction(id)
  \/ logout

InitModes ==
  /\ API_KEY = S_KEY
  /\ calls = [id \in CallIds |-> IdleCall]
  /\ InitApp
  /\ last = Handler("init", "", "none")

SpecModes == InitModes /\ [][NextModes]_vars

\* category is one of the categories of the profile `mode`
Listed(category, mode) ==
  \E n \in 1..Len(MODE_CONFIG[mode]) : MODE_CONFIG[mode][n] = category

\* C36: in every reachable state every transaction of the user's ledger has a
\* category of the category list of the user's current profile mode, after
\* any sequence of adds, removes and changes of the profile mode
C36_LedgerCategoriesAreListed ==
  currentUser # NoUser =>
    \A i \in 1..Len(currentUser.transactions) :
      Listed(currentUser.transactions[i].category, currentUser.mode)

(***************************************************************************)
(* The type of the value recoverJson returns                               *)
(***************************************************************************)
\* C37: whenever recoverJson returns, the returned value is a JSON object,
\* and for the text of a JSON array that wraps the data object it returns
\* that object rather than the array
C37_RecoverReturnsAnObject ==
  \A id \in Recovered :
    calls[id].result.ok =>
      /\ calls[id].result.value.t = "obj"
      /\ TextOf(id) = T_ARRAY => calls[id].result = Ok(JSONparse(T_OBJECT).val)
====
